---------------------------- MODULE Spec2Model ----------------------------
(***************************************************************************)
(* Model of the polling-and-deduplication core of the PolyMarket trade     *)
(* tracker backend (src/src/backend): the Hashdive normalizer, the trade   *)
(* and alert-log store (crud.py / models.py), the wallet registry          *)
(* endpoints (main.py) and the TradePoller state machine (poller.py).      *)
(*                                                                         *)
(* Conventions                                                             *)
(*   - an Optional[float] is a sequence: <<>> is None, <<v>> is the value  *)
(*     v; money and quantities are integers                                *)
(*   - a raw upstream JSON scalar of a numeric field is a record           *)
(*     [k, v]: k = "null" (missing / null), "num" (a JSON number v),       *)
(*     "str" (a numeric string holding v), "bad" (a non-numeric string)    *)
(*   - a text field is a string; Null stands for a missing / null value    *)
(*   - a table is a bag of rows, so that a second row with the same key    *)
(*     is representable and uniqueness is something the code must ensure   *)
(*   - the coroutine of the poller task runs from one await to the next    *)
(*     without any other coroutine of the event loop (start, stop) being   *)
(*     scheduled; the request handlers of main.py are plain functions run  *)
(*     in the server's thread pool, so they interleave with the task at    *)
(*     the granularity of its store operations                             *)
(***************************************************************************)
EXTENDS Integers, Sequences, FiniteSets, Bags, TLC

(***************************************************************************)
(* Bounds of the model                                                     *)
(***************************************************************************)
\* wallet addresses the registry endpoints are called with: 1..NumAddr
NumAddr == 1
\* number of loop tasks start() may create in one behaviour
MaxTasks == 2
\* the per-identifier history counters saturate here
MaxCount == 2
\* time a slow upstream request blocks the event loop, in milliseconds
FetchMs == 300
\* how long before a timer is due the clock may stop on its way to it
EarlyMs == 100
\* the clock stops here, one inter-cycle sleep and ten seconds after startup
TimeHorizonMs == 100010000
\* longest list bulk_create_trades is called with
MaxBulk == 3
\* largest page number and page size of a trades query
MaxPage == 3
MaxPageSize == 2

(***************************************************************************)
(* Program constants                                                       *)
(***************************************************************************)
\* settings.min_trade_size_usd (default)
MinTradeSizeUsd == 100
\* default page size of crud.get_tracked_wallets
WalletPageLimit == 100
\* asyncio.sleep(1.05) between two wallets of a cycle, in milliseconds
PaceDelayMs == 1050
\* poll_interval the application passes to TradePoller, in seconds
PollIntervalSeconds == 100000
\* settings.poll_interval_seconds (default)
SettingsPollIntervalSeconds == 60
\* settings.initial_lookback_days (default)
InitialLookbackDays == 7

Null == "null"
NoFloat == <<>>

Min2(a, b) == IF a < b THEN a ELSE b

(***************************************************************************)
(* Python value semantics used by the normalizer                           *)
(***************************************************************************)
NullNum == [k |-> "null", v |-> 0]
Num(n) == [k |-> "num", v |-> n]
NumStr(n) == [k |-> "str", v |-> n]
BadStr == [k |-> "bad", v |-> 0]

\* truth value of a raw JSON scalar: None and 0 are false, any non-empty string is true
Truthy(x) == \/ x.k = "num" /\ x.v # 0
             \/ x.k \in {"str", "bad"}

\* Python's  a or b
PyOr(a, b) == IF Truthy(a) THEN a ELSE b

\* truth value of a text field
TextTruthy(s) == s # Null

TextOr(a, b) == IF TextTruthy(a) THEN a ELSE b

\* truth value of an Optional[float]
FloatTruthy(f) == f # NoFloat /\ f[1] # 0

\* HashdiveClient.safe_float
SafeFloat(x) == IF x.k \in {"num", "str"} THEN <<x.v>> ELSE NoFloat

\* str.lower on the side spellings the model uses
Lower(s) == CASE s = "BUY" -> "buy"
              [] s = "Short" -> "short"
              [] s = "Hold" -> "hold"
              [] OTHER -> s

\* HashdiveClient.normalize_side
NormalizeSide(side) ==
    IF ~TextTruthy(side) THEN Null
    ELSE IF Lower(side) \in {"buy", "long"} THEN "buy"
    ELSE IF Lower(side) \in {"sell", "short"} THEN "sell"
    ELSE Lower(side)

\* a raw upstream record with every field missing
RawBase == [id |-> Null, trade_id |-> Null, asset_id |-> Null, token_id |-> Null,
            timestamp |-> Null, side |-> Null,
            price |-> NullNum, usd_amount |-> NullNum, value_usd |-> NullNum,
            shares |-> NullNum, size |-> NullNum, amount |-> NullNum]

\* generate_trade_uid that leaves the price out of the hashed fields
GenerateTradeUidNoPrice(trade, wallet_address) ==
    [src |-> "sha", id |-> Null,
     wallet |-> wallet_address,
     asset |-> TextOr(TextOr(trade.asset_id, trade.token_id), ""),
     timestamp |-> trade.timestamp,
     side |-> trade.side,
     price |-> NullNum,
     amount |-> PyOr(PyOr(trade.usd_amount, trade.shares), trade.size)]

\* HashdiveClient.generate_trade_uid: SHA-256 of the JSON of these six fields,
\* keys sorted; the digest is modelled as the tuple it is computed from
GenerateTradeUid(trade, wallet_address) ==
    [src |-> "sha", id |-> Null,
     wallet |-> wallet_address,
     asset |-> TextOr(TextOr(trade.asset_id, trade.token_id), ""),
     timestamp |-> trade.timestamp,
     side |-> trade.side,
     price |-> trade.price,
     amount |-> PyOr(PyOr(trade.usd_amount, trade.shares), trade.size)]

\* an identifier supplied by the upstream
UpstreamUid(id) ==
    [src |-> "id", id |-> id, wallet |-> 0, asset |-> "", timestamp |-> Null,
     side |-> Null, price |-> NullNum, amount |-> NullNum]

\* HashdiveClient.normalize_trade
NormalizeTrade(trade, wallet_address) ==
    LET given == TextOr(trade.id, trade.trade_id)
        trade_uid == IF TextTruthy(given) THEN UpstreamUid(given)
                     ELSE GenerateTradeUid(trade, wallet_address)
        side == IF trade.side = "b" THEN "buy"
                ELSE IF trade.side = "s" THEN "sell"
                ELSE NormalizeSide(trade.side)
        price == SafeFloat(trade.price)
        usd == SafeFloat(PyOr(trade.usd_amount, trade.value_usd))
        shares == SafeFloat(PyOr(PyOr(trade.shares, trade.size), trade.amount))
    IN [trade_uid |-> trade_uid,
        wallet_address |-> wallet_address,
        side |-> side,
        price |-> price,
        usd_amount |-> IF ~FloatTruthy(usd) /\ FloatTruthy(price) /\ FloatTruthy(shares)
                       THEN <<price[1] * shares[1]>>
                       ELSE usd,
        shares |-> shares]

(***************************************************************************)
(* The store: crud.py over the tables of models.py                         *)
(***************************************************************************)
\* rows of a table (a bag) that satisfy a filter
Rows(table) == BagToSet(table)

\* number of rows of the trades table with this trade_uid
TradeRows(tr, uid) == BagCardinality([r \in {x \in Rows(tr) : x.trade_uid = uid} |-> tr[r]])

\* number of rows of the alert_log table with this trade_uid
AlertRows(log, uid) == BagCardinality([r \in {x \in Rows(log) : x.trade_uid = uid} |-> log[r]])

\* crud.get_trade(...) is not None
TradeExists(tr, uid) == \E r \in Rows(tr) : r.trade_uid = uid

\* crud.create_trade without the existence check: every call adds a row
CreateTradeNoDedup(tr, trade_data) ==
    [trades |-> tr (+) SetToBag({trade_data}), ret |-> <<trade_data>>]

\* create_trade that overwrites the stored row of the trade_uid with the new data
CreateTradeUpsert(tr, trade_data) ==
    IF TradeExists(tr, trade_data.trade_uid)
    THEN [trades |-> SetToBag({r \in Rows(tr) : r.trade_uid # trade_data.trade_uid}
                                \cup {trade_data}),
          ret |-> <<>>]
    ELSE [trades |-> tr (+) SetToBag({trade_data}), ret |-> <<trade_data>>]

\* crud.create_trade: ret is <<>> for None (already exists), <<row>> for the stored trade
CreateTrade(tr, trade_data) ==
    IF TradeExists(tr, trade_data.trade_uid)
    THEN [trades |-> tr, ret |-> <<>>]
    ELSE [trades |-> tr (+) SetToBag({trade_data}), ret |-> <<trade_data>>]

\* db.add(trade); db.commit() with no key on trade_uid: the row is always added
InsertTradeNoKey(tr, trade_data) ==
    [trades |-> tr (+) SetToBag({trade_data}), raised |-> FALSE]

\* db.add(trade); db.commit() of create_trade: trades.trade_uid is the primary
\* key, so the INSERT of a second row with the trade_uid fails; the commit
\* raises IntegrityError, which create_trade does not catch, and adds nothing
InsertTrade(tr, trade_data) ==
    IF TradeExists(tr, trade_data.trade_uid)
    THEN [trades |-> tr, raised |-> TRUE]
    ELSE [trades |-> tr (+) SetToBag({trade_data}), raised |-> FALSE]

\* crud.was_alert_sent that looks for a successful attempt only
WasAlertSentOk(log, uid) == \E r \in Rows(log) : r.trade_uid = uid /\ r.status = "success"

\* crud.was_alert_sent
WasAlertSent(log, uid) == \E r \in Rows(log) : r.trade_uid = uid

\* crud.create_alert_log; alert_log.trade_uid is declared unique, so the
\* commit of a second row for the same trade_uid fails and adds nothing
CreateAlertLog(log, uid, wallet_address, status, error_message) ==
    IF AlertRows(log, uid) > 0 THEN log
    ELSE log (+) SetToBag({[trade_uid |-> uid, wallet_address |-> wallet_address,
                            status |-> status, error_message |-> error_message]})

\* crud.get_tracked_wallets: no ORDER BY, rows in table order, OFFSET skip LIMIT limit
GetTrackedWallets(reg, skip, limit) ==
    SubSeq(reg, skip + 1, Min2(Len(reg), skip + limit))

\* crud.get_wallet(...) is not None
WalletTracked(reg, a) == \E i \in 1..Len(reg) : reg[i].wallet_address = a

\* crud.get_wallet: the row of a tracked wallet
WalletRow(reg, a) == reg[CHOOSE i \in 1..Len(reg) : reg[i].wallet_address = a]

\* the rows left in a table after removing those a filter selects
SeqWithout(s, a) ==
    LET F[i \in 0..Len(s)] ==
            IF i = 0 THEN <<>>
            ELSE IF s[i].wallet_address = a THEN F[i - 1] ELSE Append(F[i - 1], s[i])
    IN F[Len(s)]

\* TrackedWallet.trades has cascade "all, delete-orphan": deleting the wallet
\* deletes the trades whose wallet_address is the wallet's
CascadeTrades(tr, a) == [r \in {x \in Rows(tr) : x.wallet_address # a} |-> tr[r]]


(***************************************************************************)
(* Alert policy and notifier                                               *)
(***************************************************************************)
\* TradePoller.should_send_alert:
\*   if trade.usd_amount and trade.usd_amount < settings.min_trade_size_usd: return False
ShouldSendAlert(trade) ==
    ~(FloatTruthy(trade.usd_amount) /\ trade.usd_amount[1] < MinTradeSizeUsd)

\* EmailNotifier._format_trade_email: the format specs :.4f / :,.2f and
\* .upper() raise on a None value, so the body can be built only when
\* price, shares, usd_amount and side are all present; a timestamp that cannot
\* be parsed, None included, is shown as it is (bare except)
EmailFormats(trade) ==
    /\ trade.price # NoFloat
    /\ trade.shares # NoFloat
    /\ trade.usd_amount # NoFloat
    /\ trade.side # Null

\* EmailNotifier._send_email: the (success, error_message) pair; smtpOk is the
\* outcome of the SMTP transport, every exception of which is caught
SendEmail(smtpOk) ==
    IF smtpOk
    THEN [raised |-> FALSE, success |-> TRUE, error_message |-> ""]
    ELSE [raised |-> FALSE, success |-> FALSE, error_message |-> "SMTP error: ..."]

\* send_trade_alert without its try/except: a failing format raises to the caller
SendTradeAlertNoCatch(trade, smtpOk) ==
    IF EmailFormats(trade) THEN SendEmail(smtpOk)
    ELSE [raised |-> TRUE, success |-> FALSE, error_message |-> ""]

\* EmailNotifier.send_trade_alert: the (success, error_message) pair it returns;
\* raised tells whether an exception leaves the call instead
SendTradeAlert(trade, smtpOk) ==
    IF EmailFormats(trade) THEN SendEmail(smtpOk)
    ELSE [raised |-> FALSE, success |-> FALSE,
          error_message |-> "Failed to send trade alert: ..."]

\* status and error_message send_alert passes to create_alert_log
LogStatus(res) == IF res.success THEN "success" ELSE "failed"
LogError(res) == IF res.success THEN Null ELSE res.error_message

\* send_alert that logs successful sends only
SendAlertLogSuccessOnly(log, wallet, trade, smtpOk) ==
    IF WasAlertSent(log, trade.trade_uid)
    THEN [log |-> log, sent |-> FALSE, ok |-> FALSE]
    ELSE LET res == SendTradeAlert(trade, smtpOk)
         IN [log |-> IF res.success
                     THEN CreateAlertLog(log, trade.trade_uid, wallet.wallet_address,
                                         LogStatus(res), LogError(res))
                     ELSE log,
             sent |-> TRUE, ok |-> res.success]

\* TradePoller.send_alert without the was_alert_sent guard
SendAlertNoGuard(log, wallet, trade, smtpOk) ==
    LET res == SendTradeAlert(trade, smtpOk)
    IN [log |-> CreateAlertLog(log, trade.trade_uid, wallet.wallet_address,
                               LogStatus(res), LogError(res)),
        sent |-> TRUE, ok |-> res.success]

\* TradePoller.send_alert: sent tells whether the notifier was invoked, ok
\* whether it reported success
SendAlert(log, wallet, trade, smtpOk) ==
    IF WasAlertSent(log, trade.trade_uid)
    THEN [log |-> log, sent |-> FALSE, ok |-> FALSE]
    ELSE LET res == SendTradeAlert(trade, smtpOk)
         IN [log |-> IF res.raised THEN log
                     ELSE CreateAlertLog(log, trade.trade_uid, wallet.wallet_address,
                                         LogStatus(res), LogError(res)),
             sent |-> TRUE, ok |-> res.success]

\* the body of the for loop of poll_wallet with the alert sent for every
\* fetched trade, new or not
PollTradeAlertAll(tr, log, wallet, trade_data, smtpOk) ==
    LET res == CreateTrade(tr, trade_data)
        sa == SendAlert(log, wallet, trade_data, smtpOk)
    IN [trades |-> res.trades, log |-> sa.log, new |-> res.ret # <<>>,
        reached |-> TRUE, sent |-> sa.sent, ok |-> sa.ok]

\* the body of the for loop of TradePoller.poll_wallet, for one fetched trade:
\* new tells whether create_trade stored it, reached whether send_alert was
\* called, sent whether the notifier was invoked
PollTrade(tr, log, wallet, trade_data, smtpOk) ==
    LET res == CreateTrade(tr, trade_data)
    IN IF res.ret # <<>> /\ wallet.alerts_enabled /\ ShouldSendAlert(res.ret[1])
       THEN LET sa == SendAlert(log, wallet, res.ret[1], smtpOk)
            IN [trades |-> res.trades, log |-> sa.log, new |-> TRUE,
                reached |-> TRUE, sent |-> sa.sent, ok |-> sa.ok]
       ELSE [trades |-> res.trades, log |-> log, new |-> res.ret # <<>>,
             reached |-> FALSE, sent |-> FALSE, ok |-> FALSE]

\* the loop body of poll_wallet over the registry as it is now: create_trade
\* has just committed when  wallet.alerts_enabled  is read, so the attribute is
\* loaded again from the wallet's row; if the row is gone the read raises
\* ObjectDeletedError, which the handler of the loop body catches
PollTradeIn(reg, tr, log, a, trade_data, smtpOk) ==
    IF WalletTracked(reg, a)
    THEN PollTrade(tr, log, WalletRow(reg, a), trade_data, smtpOk)
    ELSE LET res == CreateTrade(tr, trade_data)
         IN [trades |-> res.trades, log |-> log, new |-> res.ret # <<>>,
             reached |-> FALSE, sent |-> FALSE, ok |-> FALSE]

\* the for loop of poll_wallet over the trades of one response, oks[i] being
\* the outcome of the SMTP transport for the i-th trade; new and sent collect
\* the trade_uids stored and the notifier invocations with their outcome
PollWalletTrades(reg, tr, log, a, got, oks) ==
    LET F[i \in 0..Len(got)] ==
            IF i = 0 THEN [trades |-> tr, log |-> log, new |-> {}, sent |-> {}]
            ELSE LET prev == F[i - 1]
                     res == PollTradeIn(reg, prev.trades, prev.log, a, got[i], oks[i])
                 IN [trades |-> res.trades,
                     log |-> res.log,
                     new |-> prev.new \cup (IF res.new THEN {got[i].trade_uid} ELSE {}),
                     sent |-> prev.sent
                               \cup (IF res.sent THEN {<<got[i].trade_uid, res.ok>>}
                                     ELSE {})]
    IN F[Len(got)]

\* bulk_create_trades that stops at the first element that is already stored
BulkCreateTradesUntilDup(tr, trades_data) ==
    LET F[i \in 0..Len(trades_data)] ==
            IF i = 0 THEN [trades |-> tr, imported |-> 0, skipped |-> 0, new |-> {},
                           stop |-> FALSE]
            ELSE LET prev == F[i - 1]
                     res == CreateTrade(prev.trades, trades_data[i])
                 IN IF prev.stop THEN prev
                    ELSE IF res.ret # <<>>
                    THEN [trades |-> res.trades, imported |-> prev.imported + 1,
                          skipped |-> prev.skipped,
                          new |-> prev.new \cup {trades_data[i].trade_uid},
                          stop |-> FALSE]
                    ELSE [trades |-> res.trades, imported |-> prev.imported,
                          skipped |-> prev.skipped + 1, new |-> prev.new,
                          stop |-> TRUE]
        last == F[Len(trades_data)]
    IN [trades |-> last.trades,
        imported |-> last.imported,
        skipped |-> last.skipped,
        total |-> Len(trades_data),
        new |-> last.new]

\* crud.bulk_create_trades
BulkCreateTrades(tr, trades_data) ==
    LET F[i \in 0..Len(trades_data)] ==
            IF i = 0 THEN [trades |-> tr, imported |-> 0, skipped |-> 0, new |-> {}]
            ELSE LET prev == F[i - 1]
                     res == CreateTrade(prev.trades, trades_data[i])
                 IN IF res.ret # <<>>
                    THEN [trades |-> res.trades, imported |-> prev.imported + 1,
                          skipped |-> prev.skipped,
                          new |-> prev.new \cup {trades_data[i].trade_uid}]
                    ELSE [trades |-> res.trades, imported |-> prev.imported,
                          skipped |-> prev.skipped + 1, new |-> prev.new]
        last == F[Len(trades_data)]
    IN [trades |-> last.trades,
        imported |-> last.imported,
        skipped |-> last.skipped,
        total |-> Len(trades_data),
        new |-> last.new]

(***************************************************************************)
(* The upstream: what the Hashdive API holds for each wallet               *)
(***************************************************************************)
RawA == [RawBase EXCEPT !.asset_id = "a1", !.timestamp = "1/14/2026 17:47", !.side = "b",
                        !.price = Num(3), !.shares = Num(50), !.usd_amount = Num(150)]
RawB == [RawBase EXCEPT !.asset_id = "a2", !.timestamp = "1/15/2026 9:05", !.side = "s",
                        !.price = Num(5), !.shares = Num(10), !.usd_amount = Num(50)]
RawC == [RawBase EXCEPT !.id = "t9", !.timestamp = "1/16/2026 10:00", !.side = "BUY",
                        !.price = Num(2), !.shares = Num(75)]
RawD == [RawBase EXCEPT !.asset_id = "a4", !.timestamp = "banana", !.side = "Short",
                        !.shares = Num(10)]
\* a record whose timestamp is the JSON integer 1768412820000 (epoch milliseconds)
EpochMs == "int:1768412820000"
RawBad == [RawBase EXCEPT !.asset_id = "a5", !.timestamp = EpochMs, !.side = "b",
                          !.price = Num(4), !.shares = Num(50), !.usd_amount = Num(200)]

UpstreamTrades(wallet_address) ==
    CASE wallet_address = 1 -> <<RawA, RawB>>
      [] wallet_address = 3 -> <<RawC, RawD>>
      [] wallet_address = 4 -> <<RawA, RawBad, RawB>>
      [] OTHER -> <<>>

\* HashdiveClient.normalize_timestamp on the timestamps the model uses: an int
\* goes to datetime.fromtimestamp, which raises for one that is out of range
\* for a date, as epoch milliseconds are; a string is parsed as M/D/YYYY
\* H:MM[:SS], then as ISO 8601 (Z read as +00:00), and is returned as it is
\* when every parser fails; anything else (None, a float) gives the current
\* time
NormalizeTimestamp(timestamp) ==
    CASE timestamp = EpochMs -> [raised |-> TRUE, value |-> Null]
      [] timestamp = "int:1768412820" -> [raised |-> FALSE, value |-> "2026-01-14T17:47:00"]
      [] timestamp = "1/14/2026 17:47" -> [raised |-> FALSE, value |-> "2026-01-14T17:47:00"]
      [] timestamp = "1/15/2026 9:05" -> [raised |-> FALSE, value |-> "2026-01-15T09:05:00"]
      [] timestamp = "1/16/2026 10:00" -> [raised |-> FALSE, value |-> "2026-01-16T10:00:00"]
      [] timestamp = "1/14/2026 17:47:30" ->
            [raised |-> FALSE, value |-> "2026-01-14T17:47:30"]
      [] timestamp = "2026-01-14T17:47:00Z" ->
            [raised |-> FALSE, value |-> "2026-01-14T17:47:00+00:00"]
      [] timestamp \in {Null, "float:1768412820.5"} ->
            [raised |-> FALSE, value |-> "utcnow"]
      [] OTHER -> [raised |-> FALSE, value |-> timestamp]

\* normalize_trade raises on the record: its timestamp makes
\* normalize_timestamp raise
NormalizeRaises(trade) == NormalizeTimestamp(trade.timestamp).raised

\* HashdiveClient.get_trades: every error is caught and answered with [],
\* an exception of the normalization loop included; ok is whether the HTTP
\* request succeeded
GetTrades(wallet_address, ok) ==
    IF ok /\ \A i \in 1..Len(UpstreamTrades(wallet_address)) :
                 ~NormalizeRaises(UpstreamTrades(wallet_address)[i])
    THEN [i \in 1..Len(UpstreamTrades(wallet_address)) |->
              NormalizeTrade(UpstreamTrades(wallet_address)[i], wallet_address)]
    ELSE <<>>


(***************************************************************************)
(* State                                                                   *)
(***************************************************************************)
VARIABLES
    wallets,      \* table tracked_wallets, in table order
    trades,       \* table trades
    alertLog,     \* table alert_log
    running,      \* TradePoller.running
    selfTask,     \* TradePoller.task: 0 is None, else the id of a loop task
    taskState,    \* each loop task: unborn, pending (created, not yet run), active
                  \* (running between two awaits), pace (in asyncio.sleep(1.05)),
                  \* sleep (in asyncio.sleep(poll_interval)), done
    cancelReq,    \* loop tasks on which cancel() was called and not yet delivered
    stopAwait,    \* the task a stop() call is awaiting, 0 when no stop() is in flight
    pc,           \* position of the active task inside poll_once
    cycWallets,   \* poll_once: wallets
    wi,           \* poll_once: index of the wallet being polled
    fetched,      \* poll_wallet: trades
    ti,           \* poll_wallet: index of the trade being processed
    expired,      \* poll_once: db has committed since the wallets were loaded, so
                  \* the attributes of the wallet objects are expired; FALSE once
                  \* the cycle has ended and db is closed
    \* history of the behaviour, read by the properties only
    everStored,   \* trade_uids create_trade has stored at some time
    notified,     \* bag of trade_uids: invocations of the notifier
    outcomes,     \* <<trade_uid, success>> of every invocation of the notifier
    cycReg,       \* addresses in the registry when the current cycle started
    cycFetched,   \* addresses for which the current cycle called the upstream
    cycFailed,    \* addresses whose upstream request failed in the current cycle
    cycStored,    \* trade_uids that were in the store when the cycle had processed them
    cycDone,      \* the current cycle has completed
    stopped,      \* tasks whose stop() call has returned
    quiescent,    \* a stop() has returned and start() was not called since it began
    lateWork,     \* the loop fetched, stored or notified while quiescent
    events,       \* what has happened so far: "dup" create_trade found the trade stored,
                  \* "restored" it stored a trade_uid that had been stored before,
                  \* "guard" send_alert found an alert_log row, "noop" start() while running
    \* the ingestion of one raw record, twice (normalizer + store + policy)
    raw, inWallet, inPc, ret1, ret2, polOut,
    \* the clock of the event loop, in milliseconds
    timed,        \* the clock is modelled; when FALSE every timer counts as due
    now,          \* current time
    wake,         \* when the asyncio.sleep of the loop task is due
    \* history of the timing, read by the properties only
    lastFetch,    \* time of the latest upstream call of the current cycle, -1 if none
    cycEndAt,     \* time the loop entered its latest asyncio.sleep(poll_interval)
    waited,       \* time the latest inter-cycle sleep took, -1 if none has ended
    late,         \* how long after it was due the latest sleep of the loop returned
    stopCall,     \* the latest stop(): time of the call, where the task was suspended,
                  \* the sleep time that remained, and time from call to return (-1: none)
    \* poll_once run out of band, as a coroutine of its own
    mpc,          \* off, pace (in asyncio.sleep(1.05)), done
    mwallets,     \* its wallets
    mwi,          \* index of the wallet it polled last
    mwake,        \* when its asyncio.sleep is due
    mexpired,     \* its db has committed since it loaded its wallets
    \* one call of bulk_create_trades
    bulkIn,       \* trades_data
    bulkBefore,   \* the trades table before the call
    bulkOut,      \* <<>> before the call, <<result>> after it
    \* one call of send_trade_alert
    mailIn,       \* trade
    mailOut,      \* <<>> before the call, <<outcome of the transport, result>> after it
    \* two sessions that insert the trades of one upstream response concurrently
    race,         \* per session: kind (poll: the for loop of poll_wallet, bulk:
                  \* bulk_create_trades of a fetch-history request), pc (off, select,
                  \* commit, alert, log, done, raised), i (index of the trade), ok
                  \* (outcome of its notifier call), imported, skipped
    response,     \* the answer of the last request to a read-only endpoint, or the
                  \* result of the last call of a pure function, <<>> before the first;
                  \* at records what held when the request was served
    tracker,      \* the batching tracker (src/src/tracker), <<>> when it is not run: seen
                  \* (ids of the seen_trades table), pending (AlertManager.pending_alerts),
                  \* last_batch_sent (-1 for None), batch_alerts, now (seconds), and the
                  \* history: queued (alerts queued so far), handed (alerts handed to the
                  \* notifier, a bag), reported (per id, the cycles that reported it new),
                  \* flush (the messages of the last cycle), due (should_flush_batch at
                  \* its end), cycles
    window        \* history: the last request of the loop's poll_wallet to the upstream
                  \* (kept when the clock is modelled): wallet, at (the clock),
                  \* start_time as computed, had (the wallet had stored trades),
                  \* params (the query parameters sent)

storeVars == <<wallets, trades, alertLog>>
pollerVars == <<running, selfTask, taskState, cancelReq, stopAwait>>
cycleVars == <<pc, cycWallets, wi, fetched, ti, expired>>
cycleHist == <<cycReg, cycFetched, cycFailed, cycStored, cycDone>>
stopHist == <<stopped, quiescent, lateWork>>
ingestVars == <<raw, inWallet, inPc, ret1, ret2, polOut>>
clockVars == <<timed, now, wake>>
timeHist == <<lastFetch, cycEndAt, waited, late, stopCall>>
manualVars == <<mpc, mwallets, mwi, mwake, mexpired>>
bulkVars == <<bulkIn, bulkBefore, bulkOut>>
mailVars == <<mailIn, mailOut>>
auxVars == <<race, window, response, tracker>>
sideVars == <<manualVars, bulkVars, mailVars, auxVars>>
vars == <<wallets, trades, alertLog, running, selfTask, taskState, cancelReq, stopAwait,
          pc, cycWallets, wi, fetched, ti, expired, everStored, notified, outcomes,
          cycReg, cycFetched, cycFailed, cycStored, cycDone, stopped, quiescent,
          lateWork, events, raw, inWallet, inPc, ret1, ret2, polOut,
          timed, now, wake, lastFetch, cycEndAt, waited, late, stopCall,
          mpc, mwallets, mwi, mwake, mexpired, bulkIn, bulkBefore, bulkOut,
          mailIn, mailOut, race, window, response, tracker>>

Addresses == 1..NumAddr
Tasks == 1..MaxTasks

\* saturating count of an event per trade_uid
Count(b, u) == IF BagIn(u, b) THEN b[u] ELSE 0
Bump(b, u) == IF BagIn(u, b) THEN [b EXCEPT ![u] = Min2(MaxCount, @ + 1)]
              ELSE b (+) SetToBag({u})

AddressesOf(reg) == [i \in 1..Len(reg) |-> reg[i].wallet_address]
Range(s) == {s[i] : i \in 1..Len(s)}

\* no coroutine of the event loop is between two awaits
Idle == \A t \in Tasks : taskState[t] # "active"

PollerInit ==
    /\ running = FALSE
    /\ selfTask = 0
    /\ taskState = [t \in Tasks |-> "unborn"]
    /\ cancelReq = [t \in Tasks |-> FALSE]
    /\ stopAwait = 0
    /\ pc = "none"
    /\ cycWallets = <<>>
    /\ wi = 0
    /\ fetched = <<>>
    /\ ti = 0
    /\ expired = FALSE

NoStop == [at |-> -1, in |-> "none", remaining |-> 0, lag |-> -1]

HistInit ==
    /\ everStored = {}
    /\ notified = EmptyBag
    /\ outcomes = {}
    /\ lastFetch = -1
    /\ cycEndAt = -1
    /\ waited = -1
    /\ late = 0
    /\ stopCall = NoStop
    /\ cycReg = <<>>
    /\ cycFetched = <<>>
    /\ cycFailed = {}
    /\ cycStored = {}
    /\ cycDone = FALSE
    /\ stopped = {}
    /\ quiescent = FALSE
    /\ lateWork = FALSE
    /\ events = {}

IngestOff ==
    /\ raw = RawBase
    /\ inWallet = 0
    /\ inPc = "off"
    /\ ret1 = <<>>
    /\ ret2 = <<>>
    /\ polOut = <<>>

\* time is abstracted: the clock stands still and every timer counts as due
ClockOff ==
    /\ timed = FALSE
    /\ now = 0
    /\ wake = 0

\* no second session
AuxOff ==
    /\ race = <<>>
    /\ window = <<>>
    /\ response = <<>>
    /\ tracker = <<>>

\* no out-of-band poll_once, bulk_create_trades or send_trade_alert call
SideOff ==
    /\ mpc = "off"
    /\ mwallets = <<>>
    /\ mwi = 0
    /\ mwake = 0
    /\ mexpired = FALSE
    /\ bulkIn = <<>>
    /\ bulkBefore = EmptyBag
    /\ bulkOut = <<>>
    /\ mailIn = <<>>
    /\ mailOut = <<>>
    /\ AuxOff

\* the state after lifespan() built the TradePoller over an empty database
Init ==
    /\ wallets = <<>>
    /\ trades = EmptyBag
    /\ alertLog = EmptyBag
    /\ PollerInit
    /\ HistInit
    /\ IngestOff
    /\ ClockOff
    /\ SideOff

\* TradePoller.poll_interval, in milliseconds
PollIntervalMs == PollIntervalSeconds * 1000

\* when a sleep of delay milliseconds that starts at t0 is due
TimerAt(t0, delay) == IF timed THEN t0 + delay ELSE wake

\* the timer set for w has expired
Due(w) == ~timed \/ now >= w

\* time an upstream request may take
FetchTimes == IF timed THEN {0, FetchMs} ELSE {0}

\* a reading of the clock, kept by the history only when the clock is modelled
Stamp(old, new) == IF timed THEN new ELSE old

\* poll_wallet and get_trades up to the request, at clock reading at (ms):
\*   start_time = datetime.utcnow() - timedelta(days=settings.initial_lookback_days)
\*   params = {"user_address": wallet_address, "format": "json"}
\* the store is not read, and start_time is not put into the request
UpstreamRequest(tr, a, at) ==
    [wallet |-> a, at |-> at,
     start_time |-> at - InitialLookbackDays * 86400000,
     had |-> \E r \in Rows(tr) : r.wallet_address = a,
     params |-> {"user_address", "format"}]

(***************************************************************************)
(* Registry endpoints of main.py (thread pool)                             *)
(***************************************************************************)
\* POST /favorites -> crud.create_wallet
CreateFavorite(a, alerts) ==
    /\ ~WalletTracked(wallets, a)
    /\ wallets' = Append(wallets, [wallet_address |-> a, alerts_enabled |-> alerts])
    /\ UNCHANGED <<trades, alertLog, pollerVars, cycleVars, everStored, notified, outcomes,
                   cycleHist, stopHist, events, ingestVars, sideVars, clockVars, timeHist>>

\* PATCH /favorites/{wallet_address} -> crud.update_wallet
UpdateFavorite(a, alerts) ==
    /\ WalletTracked(wallets, a)
    /\ wallets' = [i \in 1..Len(wallets) |->
                      IF wallets[i].wallet_address = a
                      THEN [wallets[i] EXCEPT !.alerts_enabled = alerts]
                      ELSE wallets[i]]
    /\ wallets' # wallets
    /\ UNCHANGED <<trades, alertLog, pollerVars, cycleVars, everStored, notified, outcomes,
                   cycleHist, stopHist, events, ingestVars, sideVars, clockVars, timeHist>>

\* DELETE /favorites/{wallet_address} -> crud.delete_wallet
DeleteFavorite(a) ==
    /\ WalletTracked(wallets, a)
    /\ wallets' = SeqWithout(wallets, a)
    /\ trades' = CascadeTrades(trades, a)
    /\ UNCHANGED <<alertLog, pollerVars, cycleVars, everStored, notified, outcomes, cycleHist,
                   stopHist, events, ingestVars, sideVars, clockVars, timeHist>>

\* POST /favorites/{wallet_address}/fetch-history
FetchHistory(a, ok) ==
    /\ WalletTracked(wallets, a)
    /\ LET res == BulkCreateTrades(trades, GetTrades(a, ok))
       IN /\ res.new # {}
          /\ trades' = res.trades
          /\ everStored' = everStored \cup res.new
          /\ events' = events \cup (IF res.new \cap everStored # {} THEN {"restored"} ELSE {})
    /\ UNCHANGED <<wallets, alertLog, pollerVars, cycleVars, notified, outcomes, cycleHist,
                   stopHist, ingestVars, sideVars, clockVars, timeHist>>

(***************************************************************************)
(* TradePoller.start / stop (coroutines of the event loop)                 *)
(***************************************************************************)
\* start() that launches a loop whatever the running flag says
StartAlways ==
    /\ Idle
    /\ \E t \in Tasks :
          /\ taskState[t] = "unborn"
          /\ \A s \in Tasks : s < t => taskState[s] # "unborn"
          /\ running' = TRUE
          /\ selfTask' = t
          /\ taskState' = [taskState EXCEPT ![t] = "pending"]
          /\ quiescent' = FALSE
          /\ events' = events \cup (IF running THEN {"noop"} ELSE {})
    /\ UNCHANGED <<storeVars, cancelReq, stopAwait, cycleVars, everStored, notified, outcomes,
                   cycleHist, stopped, lateWork, ingestVars, sideVars, clockVars, timeHist>>

\* TradePoller.start
Start ==
    /\ Idle
    /\ IF running
       THEN /\ events' = events \cup {"noop"}
            /\ UNCHANGED <<running, selfTask, taskState, quiescent>>
       ELSE \E t \in Tasks :
               /\ taskState[t] = "unborn"
               /\ \A s \in Tasks : s < t => taskState[s] # "unborn"
               /\ running' = TRUE
               /\ selfTask' = t
               /\ taskState' = [taskState EXCEPT ![t] = "pending"]
               /\ quiescent' = FALSE
               /\ UNCHANGED events
    /\ UNCHANGED <<storeVars, cancelReq, stopAwait, cycleVars, everStored, notified, outcomes,
                   cycleHist, stopped, lateWork, ingestVars, sideVars, clockVars, timeHist>>

\* stop() that clears the flag and returns without cancelling or awaiting the task
StopNoWait ==
    /\ Idle
    /\ stopAwait = 0
    /\ running' = FALSE
    /\ quiescent' = TRUE
    /\ stopped' = IF selfTask = 0 THEN stopped ELSE stopped \cup {selfTask}
    /\ UNCHANGED <<storeVars, selfTask, taskState, cancelReq, stopAwait, cycleVars,
                   everStored, notified, outcomes, cycleHist, lateWork, events, ingestVars, sideVars, clockVars, timeHist>>

\* stop() that clears the flag and awaits the task without cancelling it
StopNoCancel ==
    /\ Idle
    /\ stopAwait = 0
    /\ running' = FALSE
    /\ IF selfTask = 0 \/ taskState[selfTask] = "done"
       THEN /\ quiescent' = TRUE
            /\ stopped' = IF selfTask = 0 THEN stopped ELSE stopped \cup {selfTask}
            /\ stopCall' = Stamp(stopCall, [at |-> now, in |-> "none", remaining |-> 0,
                                            lag |-> 0])
            /\ UNCHANGED stopAwait
       ELSE /\ stopAwait' = selfTask
            /\ stopCall' = Stamp(stopCall,
                                 [at |-> now, in |-> taskState[selfTask],
                                  remaining |-> IF taskState[selfTask] \in {"pace", "sleep"}
                                                THEN wake - now ELSE 0,
                                  lag |-> -1])
            /\ UNCHANGED <<quiescent, stopped>>
    /\ UNCHANGED <<storeVars, selfTask, taskState, cancelReq, cycleVars, everStored,
                   notified, outcomes, cycleHist, lateWork, events, ingestVars, sideVars,
                   clockVars, lastFetch, cycEndAt, waited, late>>

\* TradePoller.stop up to its await: running = False, task.cancel(), await task.
\* Awaiting no task, or a finished one, does not suspend: stop() returns at once.
StopBegin ==
    /\ Idle
    /\ stopAwait = 0
    /\ running' = FALSE
    /\ IF selfTask = 0
       THEN /\ quiescent' = TRUE
            /\ stopCall' = Stamp(stopCall, [at |-> now, in |-> "none", remaining |-> 0,
                                            lag |-> 0])
            /\ UNCHANGED <<cancelReq, stopAwait, stopped>>
       ELSE IF taskState[selfTask] = "done"
       THEN /\ quiescent' = TRUE
            /\ stopped' = stopped \cup {selfTask}
            /\ stopCall' = Stamp(stopCall, [at |-> now, in |-> "done", remaining |-> 0,
                                            lag |-> 0])
            /\ UNCHANGED <<cancelReq, stopAwait>>
       ELSE /\ cancelReq' = [cancelReq EXCEPT ![selfTask] = TRUE]
            /\ stopAwait' = selfTask
            /\ stopCall' = Stamp(stopCall,
                                 [at |-> now, in |-> taskState[selfTask],
                                  remaining |-> IF taskState[selfTask] \in {"pace", "sleep"}
                                                THEN wake - now ELSE 0,
                                  lag |-> -1])
            /\ UNCHANGED <<quiescent, stopped>>
    /\ UNCHANGED <<storeVars, selfTask, taskState, cycleVars, everStored, notified, outcomes,
                   cycleHist, lateWork, events, ingestVars, sideVars, clockVars,
                   lastFetch, cycEndAt, waited, late>>

\* TradePoller.stop resumes from  await self.task  when the task has finished
StopReturn ==
    /\ Idle
    /\ stopAwait # 0
    /\ taskState[stopAwait] = "done"
    /\ stopAwait' = 0
    /\ stopped' = stopped \cup {stopAwait}
    /\ quiescent' = IF running THEN quiescent ELSE TRUE
    /\ stopCall' = Stamp(stopCall, [stopCall EXCEPT !.lag = now - stopCall.at])
    /\ UNCHANGED <<storeVars, running, selfTask, taskState, cancelReq, cycleVars,
                   everStored, notified, outcomes, cycleHist, lateWork, events,
                   ingestVars, sideVars, clockVars, lastFetch, cycEndAt, waited, late>>

(***************************************************************************)
(* The loop task: _poll_loop / poll_once / poll_wallet                     *)
(***************************************************************************)
\* the loop test  while self.running  of _poll_loop
LoopTest(t) ==
    IF running
    THEN /\ taskState' = [taskState EXCEPT ![t] = "active"]
         /\ pc' = "cycle"
    ELSE /\ taskState' = [taskState EXCEPT ![t] = "done"]
         /\ pc' = "none"

\* first step of a created task; the ready queue of the event loop is FIFO,
\* so a task cancelled earlier has finished before a later task first runs
TaskRun(t) ==
    /\ Idle
    /\ taskState[t] = "pending"
    /\ ~cancelReq[t]
    /\ \A s \in Tasks : s < t => taskState[s] = "done"
    /\ LoopTest(t)
    /\ UNCHANGED <<storeVars, running, selfTask, cancelReq, stopAwait, cycWallets, wi,
                   fetched, ti, expired, everStored, notified, outcomes, cycleHist,
                   stopHist, events, ingestVars, sideVars, clockVars, timeHist>>

\* CancelledError is raised at the await the task is suspended in (or before
\* its first step); it is not an Exception, so neither except clause catches
\* it: poll_once runs its finally and the task ends
CancelDeliver(t) ==
    /\ Idle
    /\ taskState[t] \in {"pending", "pace", "sleep"}
    /\ cancelReq[t]
    /\ taskState' = [taskState EXCEPT ![t] = "done"]
    /\ cancelReq' = [cancelReq EXCEPT ![t] = FALSE]
    /\ pc' = "none"
    /\ cycWallets' = <<>>
    /\ wi' = 0
    /\ fetched' = <<>>
    /\ ti' = 0
    /\ expired' = FALSE
    /\ cycReg' = <<>>
    /\ cycFetched' = <<>>
    /\ cycFailed' = {}
    /\ cycStored' = {}
    /\ cycDone' = FALSE
    /\ UNCHANGED <<storeVars, running, selfTask, stopAwait, everStored, notified, outcomes,
                   stopHist, events, ingestVars, sideVars, clockVars, timeHist>>

\* poll_once up to the for loop: wallets = crud.get_tracked_wallets(db)
CycleStart(t) ==
    /\ taskState[t] = "active"
    /\ pc = "cycle"
    /\ LET ws == GetTrackedWallets(wallets, 0, WalletPageLimit)
       IN /\ cycWallets' = ws
          /\ cycReg' = AddressesOf(wallets)
          /\ cycFetched' = <<>>
          /\ cycFailed' = {}
          /\ cycStored' = {}
          /\ expired' = FALSE
          /\ lastFetch' = -1
          /\ IF ws = <<>>
             THEN /\ taskState' = [taskState EXCEPT ![t] = "sleep"]
                  /\ pc' = "none"
                  /\ wi' = 0
                  /\ cycDone' = TRUE
                  /\ wake' = TimerAt(now, PollIntervalMs)
                  /\ cycEndAt' = Stamp(cycEndAt, now)
             ELSE /\ pc' = "fetch"
                  /\ wi' = 1
                  /\ cycDone' = FALSE
                  /\ UNCHANGED <<taskState, wake, cycEndAt>>
    /\ UNCHANGED <<storeVars, running, selfTask, cancelReq, stopAwait, fetched, ti,
                   everStored, notified, outcomes, stopHist, events, ingestVars, sideVars,
                   timed, now, waited, late, stopCall>>

\* poll_wallet in which a failed upstream request raises out of poll_once
PollWalletFetchAbort(t, ok) ==
    /\ taskState[t] = "active"
    /\ pc = "fetch"
    /\ LET a == cycWallets[wi].wallet_address
           got == GetTrades(a, ok)
       IN /\ cycFetched' = Append(cycFetched, a)
          /\ cycFailed' = IF ok THEN cycFailed ELSE cycFailed \cup {a}
          /\ lateWork' = (lateWork \/ quiescent \/ stopAwait = t)
          /\ lastFetch' = Stamp(lastFetch, now)
          /\ window' = Stamp(window, UpstreamRequest(trades, a, now))
          /\ IF ~ok
             THEN /\ taskState' = [taskState EXCEPT ![t] = "sleep"]
                  /\ pc' = "none"
                  /\ cycDone' = TRUE
                  /\ wake' = TimerAt(now, PollIntervalMs)
                  /\ cycEndAt' = Stamp(cycEndAt, now)
                  /\ UNCHANGED <<fetched, ti>>
             ELSE IF got = <<>>
             THEN /\ taskState' = [taskState EXCEPT ![t] = "pace"]
                  /\ pc' = "none"
                  /\ wake' = TimerAt(now, PaceDelayMs)
                  /\ UNCHANGED <<fetched, ti, cycDone, cycEndAt>>
             ELSE /\ fetched' = got
                  /\ ti' = 1
                  /\ pc' = "process"
                  /\ UNCHANGED <<taskState, cycDone, wake, cycEndAt>>
    /\ UNCHANGED <<storeVars, running, selfTask, cancelReq, stopAwait, cycWallets, wi,
                   expired, everStored, notified, outcomes, cycReg, cycStored, stopped,
                   quiescent, events, ingestVars, manualVars, bulkVars, mailVars, race,
                   response, tracker, timed, now, waited, late, stopCall>>

\* a poll_wallet whose failed fetch raises: the handler of poll_once logs and
\* the for loop goes on to the next wallet without the pacing sleep
PollWalletFetchNoPace(t, ok) ==
    /\ taskState[t] = "active"
    /\ pc = "fetch"
    /\ LET a == cycWallets[wi].wallet_address
           got == GetTrades(a, ok)
       IN \E d \in FetchTimes :
            /\ now' = now + d
            /\ lastFetch' = Stamp(lastFetch, now')
            /\ window' = Stamp(window, UpstreamRequest(trades, a, now))
            /\ cycFetched' = Append(cycFetched, a)
            /\ cycFailed' = IF ok THEN cycFailed ELSE cycFailed \cup {a}
            /\ lateWork' = (lateWork \/ quiescent \/ stopAwait = t)
            /\ IF ~ok /\ wi < Len(cycWallets)
               THEN /\ wi' = wi + 1
                    /\ UNCHANGED <<taskState, pc, fetched, ti, wake, cycDone, cycEndAt>>
               ELSE IF ~ok
               THEN /\ taskState' = [taskState EXCEPT ![t] = "sleep"]
                    /\ pc' = "none"
                    /\ cycDone' = TRUE
                    /\ wake' = TimerAt(now', PollIntervalMs)
                    /\ cycEndAt' = Stamp(cycEndAt, now')
                    /\ UNCHANGED <<fetched, ti, wi>>
               ELSE IF got = <<>>
               THEN /\ taskState' = [taskState EXCEPT ![t] = "pace"]
                    /\ pc' = "none"
                    /\ wake' = TimerAt(now', PaceDelayMs)
                    /\ UNCHANGED <<fetched, ti, wi, cycDone, cycEndAt>>
               ELSE /\ fetched' = got
                    /\ ti' = 1
                    /\ pc' = "process"
                    /\ UNCHANGED <<taskState, wake, wi, cycDone, cycEndAt>>
    /\ UNCHANGED <<storeVars, running, selfTask, cancelReq, stopAwait, cycWallets,
                   expired, everStored, notified, outcomes, cycReg, cycStored, stopped,
                   quiescent, events, ingestVars, manualVars, bulkVars, mailVars, race,
                   response, tracker, timed, waited, late, stopCall>>

\* poll_wallet up to the for loop.  wallet.wallet_address  is read first: when
\* the session has committed since the wallets were loaded the attribute is
\* loaded again, and if the row is gone the read raises ObjectDeletedError; the
\* handler of poll_once formats  wallet.wallet_address  too and raises again,
\* so poll_once ends and _poll_loop logs and sleeps.  Otherwise
\* trades = self.hashdive_client.get_trades(...)  blocks the event loop for the
\* time of the request;  if not trades: return  -- and poll_once goes to
\* await asyncio.sleep(1.05)
PollWalletFetch(t, ok) ==
    /\ taskState[t] = "active"
    /\ pc = "fetch"
    /\ LET a == cycWallets[wi].wallet_address
           got == GetTrades(a, ok)
       IN IF expired /\ ~WalletTracked(wallets, a)
          THEN /\ taskState' = [taskState EXCEPT ![t] = "sleep"]
               /\ pc' = "none"
               /\ expired' = FALSE
               /\ wake' = TimerAt(now, PollIntervalMs)
               /\ cycEndAt' = Stamp(cycEndAt, now)
               /\ UNCHANGED <<fetched, ti, cycFetched, cycFailed, lateWork, now,
                              lastFetch, window, events>>
          ELSE \E d \in FetchTimes :
               /\ now' = now + d
               /\ lastFetch' = Stamp(lastFetch, now')
               /\ window' = Stamp(window, UpstreamRequest(trades, a, now))
               /\ cycFetched' = Append(cycFetched, a)
               /\ cycFailed' = IF ok THEN cycFailed ELSE cycFailed \cup {a}
               /\ lateWork' = (lateWork \/ quiescent \/ stopAwait = t)
               /\ IF got = <<>>
                  THEN /\ taskState' = [taskState EXCEPT ![t] = "pace"]
                       /\ pc' = "none"
                       /\ wake' = TimerAt(now', PaceDelayMs)
                       /\ UNCHANGED <<fetched, ti>>
                  ELSE /\ fetched' = got
                       /\ ti' = 1
                       /\ pc' = "process"
                       /\ UNCHANGED <<taskState, wake>>
               /\ UNCHANGED <<events, cycEndAt, expired>>
    /\ UNCHANGED <<storeVars, running, selfTask, cancelReq, stopAwait, cycWallets, wi,
                   everStored, notified, outcomes, cycReg, cycStored, cycDone,
                   stopped, quiescent, ingestVars, manualVars, bulkVars, mailVars, race,
                   response, tracker, timed, waited, late, stopCall>>

\* one iteration of the for loop of poll_wallet; after the last one poll_wallet
\* returns and poll_once goes to  await asyncio.sleep(1.05)
ProcessTrade(t, smtpOk) ==
    /\ taskState[t] = "active"
    /\ pc = "process"
    /\ LET data == fetched[ti]
           u == data.trade_uid
           res == PollTradeIn(wallets, trades, alertLog, cycWallets[wi].wallet_address,
                              data, smtpOk)
       IN /\ trades' = res.trades
          /\ alertLog' = res.log
          /\ expired' = (expired \/ res.new)
          /\ everStored' = IF res.new THEN everStored \cup {u} ELSE everStored
          /\ notified' = IF res.sent THEN Bump(notified, u) ELSE notified
          /\ outcomes' = IF res.sent THEN outcomes \cup {<<u, res.ok>>} ELSE outcomes
          /\ events' = events
                         \cup (IF res.new THEN {} ELSE {"dup"})
                         \cup (IF res.new /\ u \in everStored THEN {"restored"} ELSE {})
                         \cup (IF res.reached /\ ~res.sent THEN {"guard"} ELSE {})
          /\ cycStored' = IF TradeExists(res.trades, u)
                          THEN cycStored \cup {u} ELSE cycStored
    /\ lateWork' = (lateWork \/ quiescent \/ stopAwait = t)
    /\ IF ti < Len(fetched)
       THEN /\ ti' = ti + 1
            /\ UNCHANGED <<taskState, pc, fetched, wake>>
       ELSE /\ ti' = 0
            /\ fetched' = <<>>
            /\ pc' = "none"
            /\ taskState' = [taskState EXCEPT ![t] = "pace"]
            /\ wake' = TimerAt(now, PaceDelayMs)
    /\ UNCHANGED <<wallets, running, selfTask, cancelReq, stopAwait, cycWallets, wi,
                   cycReg, cycFetched, cycFailed, cycDone, stopped, quiescent,
                   ingestVars, sideVars, timed, now, timeHist>>

\* asyncio.sleep(1.05) returns: next wallet of the for loop of poll_once, or the
\* end of the cycle, db.close() and  await asyncio.sleep(self.poll_interval)
PaceWake(t) ==
    /\ Idle
    /\ taskState[t] = "pace"
    /\ ~cancelReq[t]
    /\ Due(wake)
    /\ late' = Stamp(late, now - wake)
    /\ IF wi < Len(cycWallets)
       THEN /\ wi' = wi + 1
            /\ pc' = "fetch"
            /\ taskState' = [taskState EXCEPT ![t] = "active"]
            /\ UNCHANGED <<cycDone, wake, cycEndAt, expired>>
       ELSE /\ taskState' = [taskState EXCEPT ![t] = "sleep"]
            /\ cycDone' = TRUE
            /\ expired' = FALSE
            /\ wake' = TimerAt(now, PollIntervalMs)
            /\ cycEndAt' = Stamp(cycEndAt, now)
            /\ UNCHANGED <<wi, pc>>
    /\ UNCHANGED <<storeVars, running, selfTask, cancelReq, stopAwait, cycWallets,
                   fetched, ti, everStored, notified, outcomes, cycReg,
                   cycFetched, cycFailed, cycStored, stopHist, events, ingestVars,
                   sideVars, timed, now, lastFetch, waited, stopCall>>

\* asyncio.sleep(self.poll_interval) returns: back to the loop test
SleepWake(t) ==
    /\ Idle
    /\ taskState[t] = "sleep"
    /\ ~cancelReq[t]
    /\ Due(wake)
    /\ late' = Stamp(late, now - wake)
    /\ waited' = Stamp(waited, now - cycEndAt)
    /\ LoopTest(t)
    /\ UNCHANGED <<storeVars, running, selfTask, cancelReq, stopAwait, cycWallets, wi,
                   fetched, ti, expired, everStored, notified, outcomes, cycleHist,
                   stopHist, events, ingestVars, sideVars, clockVars, lastFetch,
                   cycEndAt, stopCall>>

(***************************************************************************)
(* Specifications                                                          *)
(***************************************************************************)
\* the steps of the loop task
Loop(oks) ==
    \/ \E t \in Tasks : TaskRun(t)
    \/ \E t \in Tasks : CycleStart(t)
    \/ \E t \in Tasks, ok \in oks : PollWalletFetch(t, ok)
    \/ \E t \in Tasks, smtpOk \in BOOLEAN : ProcessTrade(t, smtpOk)
    \/ \E t \in Tasks : PaceWake(t)
    \/ \E t \in Tasks : SleepWake(t)

(***************************************************************************)
(* poll_once awaited out of band by another coroutine of the event loop    *)
(***************************************************************************)
\* poll_wallet for one wallet and the step to  await asyncio.sleep(1.05):
\* nothing in between suspends, and the upstream request blocks the event
\* loop for d milliseconds.  Reading wallet.wallet_address of a deleted row
\* after a commit raises out of poll_once.
ManualPollWallet(wallet, i, d, oks) ==
    LET a == wallet.wallet_address
        got == GetTrades(a, TRUE)
        res == PollWalletTrades(wallets, trades, alertLog, a, got, oks)
    IN IF mexpired /\ ~WalletTracked(wallets, a)
       THEN /\ mpc' = "done"
            /\ UNCHANGED <<trades, alertLog, everStored, notified, outcomes, now,
                           mwake, mexpired, mwi>>
       ELSE /\ now' = now + d
            /\ trades' = res.trades
            /\ alertLog' = res.log
            /\ everStored' = everStored \cup res.new
            /\ notified' = notified (+) SetToBag({x[1] : x \in res.sent})
            /\ outcomes' = outcomes \cup res.sent
            /\ mexpired' = (mexpired \/ res.new # {})
            /\ mwi' = i
            /\ mpc' = "pace"
            /\ mwake' = TimerAt(now', PaceDelayMs)

\* poll_once is called while the scheduled loop is suspended: it loads the
\* wallets and polls the first
ManualStart ==
    /\ Idle
    /\ selfTask # 0
    /\ mpc = "off"
    /\ mwallets' = GetTrackedWallets(wallets, 0, WalletPageLimit)
    /\ IF mwallets' = <<>>
       THEN /\ mpc' = "done"
            /\ UNCHANGED <<trades, alertLog, everStored, notified, outcomes, now,
                           mwake, mexpired, mwi>>
       ELSE \E d \in FetchTimes,
              oks \in [1..Len(GetTrades(mwallets'[1].wallet_address, TRUE)) -> BOOLEAN] :
               ManualPollWallet(mwallets'[1], 1, d, oks)
    /\ UNCHANGED <<wallets, pollerVars, cycleVars, cycleHist, stopHist, events,
                   ingestVars, bulkVars, mailVars, auxVars, timed, wake,
                   timeHist>>

\* its pacing sleep ends: the next wallet is polled, or the cycle is complete
ManualWake ==
    /\ Idle
    /\ mpc = "pace"
    /\ Due(mwake)
    /\ IF mwi < Len(mwallets)
       THEN \E d \in FetchTimes,
              oks \in [1..Len(GetTrades(mwallets[mwi + 1].wallet_address, TRUE))
                          -> BOOLEAN] :
               ManualPollWallet(mwallets[mwi + 1], mwi + 1, d, oks)
       ELSE /\ mpc' = "done"
            /\ UNCHANGED <<trades, alertLog, everStored, notified, outcomes, now,
                           mwake, mexpired, mwi>>
    /\ UNCHANGED <<wallets, pollerVars, cycleVars, cycleHist, stopHist, events,
                   ingestVars, mwallets, bulkVars, mailVars, auxVars, timed,
                   wake, timeHist>>

(***************************************************************************)
(* The clock of the event loop                                             *)
(***************************************************************************)
\* the timers of the coroutines suspended in asyncio.sleep
Timers ==
    {wake : t \in {t \in Tasks : taskState[t] \in {"pace", "sleep"}}}
        \cup (IF mpc = "pace" THEN {mwake} ELSE {})

Earliest(S) == CHOOSE x \in S : \A y \in S : x <= y

\* the event loop has something to run now: a task to start, a cancellation
\* to deliver, an awaiter to resume or an expired timer
Ready ==
    \/ \E t \in Tasks : taskState[t] = "pending"
    \/ \E t \in Tasks : cancelReq[t] /\ taskState[t] \in {"pace", "sleep"}
    \/ stopAwait # 0 /\ taskState[stopAwait] = "done"
    \/ \E w \in Timers : now >= w

\* time passes while the event loop waits in its selector: up to the earliest
\* timer, or to a moment shortly before it at which a request may arrive
Tick ==
    /\ timed
    /\ Idle
    /\ ~Ready
    /\ Timers # {}
    /\ \E t1 \in {Earliest(Timers) - EarlyMs, Earliest(Timers)} :
          /\ t1 > now
          /\ t1 <= TimeHorizonMs
          /\ now' = t1
    /\ UNCHANGED <<storeVars, pollerVars, cycleVars, everStored, notified, outcomes,
                   cycleHist, stopHist, events, ingestVars, sideVars, timed, wake,
                   timeHist>>

\* Spec: the service after startup -- the registry endpoints are called in
\* any order while the loop started by lifespan() polls
Next ==
    \/ \E a \in Addresses, alerts \in BOOLEAN : CreateFavorite(a, alerts)
    \/ \E a \in Addresses, alerts \in BOOLEAN : UpdateFavorite(a, alerts)
    \/ \E a \in Addresses : DeleteFavorite(a)
    \/ \E a \in Addresses, ok \in BOOLEAN : FetchHistory(a, ok)
    \/ (~running /\ Start)
    \/ Loop(BOOLEAN)

Spec == Init /\ [][Next]_vars


\* SpecCycle: poll cycles over a registry of three wallets, no endpoint called
InitCycle ==
    /\ wallets = [i \in 1..3 |-> [wallet_address |-> i, alerts_enabled |-> TRUE]]
    /\ trades = EmptyBag
    /\ alertLog = EmptyBag
    /\ PollerInit
    /\ HistInit
    /\ IngestOff
    /\ ClockOff
    /\ SideOff

NextCycle ==
    \/ (~running /\ Start)
    \/ Loop(BOOLEAN)

SpecCycle == InitCycle /\ [][NextCycle]_vars

\* SpecBig: poll cycles over a registry around the page size of
\* get_tracked_wallets; the upstream answers every request
BigSizes == {WalletPageLimit - 1, WalletPageLimit, WalletPageLimit + 1}

InitBig ==
    /\ \E n \in BigSizes :
          wallets = [i \in 1..n |-> [wallet_address |-> i, alerts_enabled |-> TRUE]]
    /\ trades = EmptyBag
    /\ alertLog = EmptyBag
    /\ PollerInit
    /\ HistInit
    /\ IngestOff
    /\ ClockOff
    /\ SideOff

NextBig ==
    \/ (~running /\ Start)
    \/ Loop({TRUE})

SpecBig == InitBig /\ [][NextBig]_vars

\* SpecLife: start() and stop() called in any order on a poller with one
\* tracked wallet
InitLife ==
    /\ wallets = <<[wallet_address |-> 1, alerts_enabled |-> TRUE]>>
    /\ trades = EmptyBag
    /\ alertLog = EmptyBag
    /\ PollerInit
    /\ HistInit
    /\ IngestOff
    /\ ClockOff
    /\ SideOff

NextLife ==
    \/ Start
    \/ StopBegin
    \/ StopReturn
    \/ \E t \in Tasks : CancelDeliver(t)
    \/ Loop(BOOLEAN)

SpecLife == InitLife /\ [][NextLife]_vars

\* SpecClock: the loop polls a registry of two wallets under the clock of the
\* event loop; time passes during requests and sleeps, stop() and the delete
\* endpoint are called at any moment the loop is suspended
InitClock ==
    /\ wallets = [i \in 1..2 |-> [wallet_address |-> i, alerts_enabled |-> TRUE]]
    /\ trades = EmptyBag
    /\ alertLog = EmptyBag
    /\ PollerInit
    /\ HistInit
    /\ IngestOff
    /\ timed = TRUE
    /\ now = 0
    /\ wake = 0
    /\ SideOff

NextClock ==
    \/ (~running /\ selfTask = 0 /\ Start)
    \/ StopBegin
    \/ StopReturn
    \/ \E t \in Tasks : CancelDeliver(t)
    \/ \E a \in Addresses : (cycWallets # <<>> /\ DeleteFavorite(a))
    \/ Loop(BOOLEAN)
    \/ Tick

SpecClock == InitClock /\ [][NextClock]_vars

\* SpecManual: as SpecClock without stop() and the endpoints, and with one
\* out-of-band poll_once awaited by another coroutine at any moment the loop
\* is suspended
NextManual ==
    \/ (~running /\ selfTask = 0 /\ Start)
    \/ Loop({TRUE})
    \/ ManualStart
    \/ ManualWake
    \/ Tick

SpecManual == InitClock /\ [][NextManual]_vars

\* SpecBatch: poll cycles over two wallets, the upstream response of the first
\* of which holds a record that normalize_trade raises on
InitBatch ==
    /\ \E alerts \in BOOLEAN :
          wallets = <<[wallet_address |-> 4, alerts_enabled |-> alerts],
                      [wallet_address |-> 3, alerts_enabled |-> TRUE]>>
    /\ trades = EmptyBag
    /\ alertLog = EmptyBag
    /\ PollerInit
    /\ HistInit
    /\ IngestOff
    /\ ClockOff
    /\ SideOff

SpecBatch == InitBatch /\ [][NextCycle]_vars

\* SpecMail: one call of send_trade_alert with a trade dictionary as
\* send_alert builds it: every key present, any of side, price, shares,
\* usd_amount and timestamp possibly None
MailInputs ==
    {[trade_uid |-> "u", side |-> sd, price |-> p, shares |-> q, usd_amount |-> u,
      timestamp |-> ts] :
        sd \in {Null, "buy", "sell"}, p \in {NoFloat, <<3>>}, q \in {NoFloat, <<50>>},
        u \in {NoFloat, <<150>>}, ts \in {Null, "2026-01-14T17:47:00"}}

InitMail ==
    /\ wallets = <<[wallet_address |-> 1, alerts_enabled |-> TRUE]>>
    /\ trades = EmptyBag
    /\ alertLog = EmptyBag
    /\ PollerInit
    /\ HistInit
    /\ IngestOff
    /\ ClockOff
    /\ mpc = "off"
    /\ mwallets = <<>>
    /\ mwi = 0
    /\ mwake = 0
    /\ mexpired = FALSE
    /\ bulkIn = <<>>
    /\ bulkBefore = EmptyBag
    /\ bulkOut = <<>>
    /\ mailIn \in MailInputs
    /\ mailOut = <<>>
    /\ AuxOff

MailSend(smtpOk) ==
    /\ mailIn # <<>>
    /\ mailOut = <<>>
    /\ mailOut' = <<smtpOk, SendTradeAlert(mailIn, smtpOk)>>
    /\ UNCHANGED <<storeVars, pollerVars, cycleVars, everStored, notified, outcomes,
                   cycleHist, stopHist, events, ingestVars, manualVars, bulkVars, mailIn,
                   auxVars, clockVars, timeHist>>

NextMail == \E smtpOk \in BOOLEAN : MailSend(smtpOk)

SpecMail == InitMail /\ [][NextMail]_vars

\* SpecBulk: one call of bulk_create_trades with a list of up to MaxBulk
\* normalized trades, repeats included, on a store that holds some of them
BulkPool == {NormalizeTrade(RawA, 1), NormalizeTrade(RawB, 1), NormalizeTrade(RawC, 3)}

InitBulk ==
    /\ wallets = <<[wallet_address |-> 1, alerts_enabled |-> TRUE],
                   [wallet_address |-> 3, alerts_enabled |-> TRUE]>>
    /\ \E S \in SUBSET BulkPool : trades = SetToBag(S)
    /\ alertLog = EmptyBag
    /\ PollerInit
    /\ HistInit
    /\ IngestOff
    /\ ClockOff
    /\ mpc = "off"
    /\ mwallets = <<>>
    /\ mwi = 0
    /\ mwake = 0
    /\ mexpired = FALSE
    /\ \E n \in 0..MaxBulk : bulkIn \in [1..n -> BulkPool]
    /\ bulkBefore = trades
    /\ bulkOut = <<>>
    /\ mailIn = <<>>
    /\ mailOut = <<>>
    /\ AuxOff

BulkCall ==
    /\ bulkOut = <<>>
    /\ LET res == BulkCreateTrades(trades, bulkIn)
       IN /\ trades' = res.trades
          /\ everStored' = everStored \cup res.new
          /\ bulkOut' = <<[imported |-> res.imported, skipped |-> res.skipped,
                           total |-> res.total]>>
    /\ UNCHANGED <<wallets, alertLog, pollerVars, cycleVars, notified, outcomes,
                   cycleHist, stopHist, events, ingestVars, manualVars, bulkIn,
                   bulkBefore, mailVars, auxVars, clockVars, timeHist>>

SpecBulk == InitBulk /\ [][BulkCall]_vars

(***************************************************************************)
(* SpecIngest: one raw record of one wallet goes through normalize_trade   *)
(* and create_trade, the stored trade through should_send_alert, and the   *)
(* same raw record through normalize_trade and create_trade again          *)
(***************************************************************************)
RawInputs ==
    {[RawBase EXCEPT !.id = i, !.trade_id = j, !.side = sd, !.price = p,
                     !.usd_amount = u, !.shares = q, !.timestamp = "1/14/2026 17:47"] :
        i \in {Null, "t1"}, j \in {Null, "t2"}, sd \in {Null, "b", "Short"},
        p \in {NullNum, Num(2)}, q \in {NullNum, Num(75)},
        u \in {NullNum, Num(0), NumStr(0), Num(50), Num(100), NumStr(150)}}

InitIngest ==
    /\ raw \in RawInputs
    /\ inWallet \in 1..2
    /\ wallets = <<[wallet_address |-> inWallet, alerts_enabled |-> TRUE]>>
    /\ trades = EmptyBag
    /\ alertLog = EmptyBag
    /\ inPc = "first"
    /\ ret1 = <<>>
    /\ ret2 = <<>>
    /\ polOut = <<>>
    /\ PollerInit
    /\ HistInit
    /\ ClockOff
    /\ SideOff

IngestFirst ==
    /\ inPc = "first"
    /\ LET res == CreateTrade(trades, NormalizeTrade(raw, inWallet))
       IN /\ trades' = res.trades
          /\ ret1' = res.ret
    /\ inPc' = "policy"
    /\ UNCHANGED <<wallets, alertLog, pollerVars, cycleVars, everStored, notified, outcomes,
                   cycleHist, stopHist, events, raw, inWallet, ret2, polOut,
                   sideVars, clockVars, timeHist>>

IngestPolicy ==
    /\ inPc = "policy"
    /\ ret1 # <<>>
    /\ polOut' = <<ShouldSendAlert(ret1[1])>>
    /\ inPc' = "second"
    /\ UNCHANGED <<storeVars, pollerVars, cycleVars, everStored, notified, outcomes,
                   cycleHist, stopHist, events, raw, inWallet, ret1, ret2,
                   sideVars, clockVars, timeHist>>

IngestSecond ==
    /\ inPc = "second"
    /\ LET res == CreateTrade(trades, NormalizeTrade(raw, inWallet))
       IN /\ trades' = res.trades
          /\ ret2' = res.ret
    /\ inPc' = "done"
    /\ UNCHANGED <<wallets, alertLog, pollerVars, cycleVars, everStored, notified, outcomes,
                   cycleHist, stopHist, events, raw, inWallet, ret1, polOut,
                   sideVars, clockVars, timeHist>>

\* the upstream reports the trade again with other field values: a record with
\* the same trade_uid goes through normalize_trade and create_trade
IngestOther(other) ==
    /\ inPc = "second"
    /\ other # raw
    /\ NormalizeTrade(other, inWallet).trade_uid = NormalizeTrade(raw, inWallet).trade_uid
    /\ LET res == CreateTrade(trades, NormalizeTrade(other, inWallet))
       IN /\ trades' = res.trades
          /\ ret2' = res.ret
    /\ raw' = other
    /\ inPc' = "done"
    /\ UNCHANGED <<wallets, alertLog, pollerVars, cycleVars, everStored, notified, outcomes,
                   cycleHist, stopHist, events, inWallet, ret1, polOut,
                   sideVars, clockVars, timeHist>>

\* SpecAmend: a record is ingested, then a record with the same trade_uid and
\* other field values; the wallet may be deleted at any moment
SpecAmend ==
    InitIngest /\ [][\/ IngestFirst
                     \/ IngestPolicy
                     \/ \E other \in RawInputs : IngestOther(other)
                     \/ DeleteFavorite(inWallet)]_vars

NextIngest ==
    \/ IngestFirst
    \/ IngestPolicy
    \/ IngestSecond

SpecIngest == InitIngest /\ [][NextIngest]_vars


(***************************************************************************)
(* Properties                                                              *)
(***************************************************************************)
UidOf(rawTrade, a) == NormalizeTrade(rawTrade, a).trade_uid

\* C1 (as stated): the store holds at most one Trade per trade_uid and
\* create_trade never stores a trade_uid that has been stored before.
C1_NeverStoredAgain ==
    /\ \A r \in Rows(trades) : TradeRows(trades, r.trade_uid) = 1
    /\ "restored" \notin events

\* C1 (amended): the store holds at most one Trade per trade_uid, that is,
\* create_trade never adds a row for a trade_uid that is in the store; a
\* trade_uid whose row the cascading deletion of its wallet removed can be
\* stored again.
C1_OneTradePerUid ==
    \A r \in Rows(trades) : TradeRows(trades, r.trade_uid) = 1

\* a trade was found stored by a later cycle, removed with its wallet and
\* stored again after the wallet was registered again
C1_Witness ==
    /\ "dup" \in events
    /\ "restored" \in events
    /\ \E r \in Rows(trades) : r.trade_uid \in everStored

\* C2: the notifier is invoked at most once per trade_uid and alert_log never
\* holds more than one row for a trade_uid, whatever cycles reprocess the
\* trade and whether or not its wallet was deleted and registered again.
C2_AtMostOneAlertPerUid ==
    /\ \A u \in BagToSet(notified) : notified[u] <= 1
    /\ \A r \in Rows(alertLog) : AlertRows(alertLog, r.trade_uid) = 1

\* a notified trade was stored again after its wallet came back, reached
\* send_alert again and still counts one notification
C2_Witness ==
    /\ {"dup", "restored", "guard"} \subseteq events
    /\ \E u \in BagToSet(notified) : notified[u] = 1 /\ TradeExists(trades, u)

\* C3: the same raw record of the same wallet through normalize_trade and
\* create_trade twice: the first call returns the stored trade, the second
\* returns None, and the store holds exactly that one trade.
C3_IngestTwiceStoresOnce ==
    /\ inPc \in {"policy", "second", "done"} =>
          /\ ret1 = <<NormalizeTrade(raw, inWallet)>>
          /\ TradeRows(trades, UidOf(raw, inWallet)) = 1
    /\ inPc = "done" =>
          /\ ret2 = <<>>
          /\ trades = SetToBag({ret1[1]})

\* both calls were made for a record without upstream identifier, whose
\* trade_uid is the hash of its fields
C3_Witness ==
    /\ inPc = "done"
    /\ raw.id = Null /\ raw.trade_id = Null
    /\ ret2 = <<>>
    /\ BagCardinality(trades) = 1

\* C4: when a cycle has completed, every wallet of the cycle was fetched, and
\* every trade the upstream holds for a wallet whose request did not fail was
\* in the store once the cycle had processed it -- whichever requests failed.
C4_CycleIsolation ==
    cycDone =>
        \A i \in 1..Len(cycWallets) :
            LET a == cycWallets[i].wallet_address
            IN /\ a \in Range(cycFetched)
               /\ a \notin cycFailed =>
                     \A k \in 1..Len(UpstreamTrades(a)) :
                         /\ UidOf(UpstreamTrades(a)[k], a) \in cycStored
                         /\ TradeExists(trades, UidOf(UpstreamTrades(a)[k], a))

\* the request of the second of three wallets failed; the first and the third
\* were fetched and their trades are stored
C4_Witness ==
    /\ cycDone
    /\ cycFailed = {2}
    /\ cycFetched = <<1, 2, 3>>
    /\ \A a \in {1, 3} : \A k \in 1..Len(UpstreamTrades(a)) :
          TradeExists(trades, UidOf(UpstreamTrades(a)[k], a))

\* C5: a step invokes the notifier for a trade only if that same step's
\* create_trade newly stored the trade, the wallet has alerts enabled and
\* should_send_alert holds of the trade.
C5_AlertOnlyForNewEnabledPassing ==
    [][\A u \in BagToSet(notified') :
          Count(notified', u) > Count(notified, u) =>
              /\ pc = "process"
              /\ fetched[ti].trade_uid = u
              /\ ~TradeExists(trades, u)
              /\ TradeExists(trades', u)
              /\ WalletTracked(wallets, cycWallets[wi].wallet_address)
              /\ WalletRow(wallets, cycWallets[wi].wallet_address).alerts_enabled
              /\ ShouldSendAlert(fetched[ti])]_vars

\* one trade was notified, another is stored without notification because
\* the policy rejects it, and a later cycle found trades already stored
C5_Witness ==
    /\ "dup" \in events
    /\ \E u \in BagToSet(notified) : TradeExists(trades, u)
    /\ \E r \in Rows(trades) : ~ShouldSendAlert(r) /\ Count(notified, r.trade_uid) = 0

\* C6 (as stated): should_send_alert is false exactly when the usd notional is
\* present and below the minimum.
C6_PolicyFalseIffBelowMinimum ==
    inPc \in {"second", "done"} =>
        (polOut[1] = FALSE <=>
            (ret1[1].usd_amount # NoFloat /\ ret1[1].usd_amount[1] < MinTradeSizeUsd))

\* C7: a call of send_alert for a trade_uid that has an alert_log row invokes
\* no notifier and leaves alert_log as it is.
C7_GuardSkipsLoggedTrade ==
    [][(/\ pc = "process"
        /\ ~TradeExists(trades, fetched[ti].trade_uid)
        /\ WalletTracked(wallets, cycWallets[wi].wallet_address)
        /\ WalletRow(wallets, cycWallets[wi].wallet_address).alerts_enabled
        /\ ShouldSendAlert(fetched[ti])
        /\ AlertRows(alertLog, fetched[ti].trade_uid) > 0)
       => (alertLog' = alertLog /\ notified' = notified)]_vars

\* send_alert was called for a trade_uid with an alert_log row
C7_Witness ==
    /\ "guard" \in events
    /\ alertLog # EmptyBag

\* C8 (as stated): a completed cycle has fetched every wallet that was in the
\* registry when it started, once each, in registry order.
C8_CycleFetchesWholeRegistry ==
    cycDone => cycFetched = cycReg

\* C9: start() while running leaves the flag, the task handle, every task and
\* the store as they are.
C9_StartWhileRunningChangesNothing ==
    [][(running /\ Start) =>
          /\ running'
          /\ UNCHANGED <<selfTask, taskState, cancelReq, stopAwait>>
          /\ UNCHANGED <<storeVars, cycleVars>>]_vars

\* start() was called while the loop was running
C9_Witness ==
    /\ "noop" \in events
    /\ running
    /\ selfTask # 0 /\ taskState[selfTask] # "done"

\* C10: a task whose stop() has returned has finished, and while a stop() has
\* returned and start() was not called since, the loop does no fetch, insert
\* or notification.
C10_StopWaitsAndLoopStaysQuiet ==
    /\ \A t \in stopped : taskState[t] = "done"
    /\ ~lateWork

\* stop() has returned for a loop that had stored trades, and start() was not
\* called since
C10_Witness ==
    /\ stopped # {}
    /\ quiescent
    /\ ~running
    /\ everStored # {}

\* C11: a stop() called while the loop is suspended in the pacing delay or in
\* the inter-cycle sleep ends the loop at that suspension point: no time
\* passes between the call and its return, the task is where it was suspended
\* or finished, and the loop starts no fetch after the call.
C11_StopEndsLoopAtSuspension ==
    /\ stopCall.lag \in {-1, 0}
    /\ stopAwait # 0 =>
          /\ now = stopCall.at
          /\ taskState[stopAwait] \in {stopCall.in, "done"}
    /\ ~lateWork

\* stop() was called with sleep time remaining, in the pacing delay or in the
\* inter-cycle sleep, and has returned
C11_Witness ==
    /\ stopCall.in \in {"pace", "sleep"}
    /\ stopCall.remaining > 0
    /\ stopCall.lag = 0
    /\ stopAwait = 0

\* C12: a fetch call that is not the first of its cycle starts at least the
\* pacing delay after the previous fetch call of the cycle returned.
C12_PacingBetweenFetches ==
    [][(Len(cycFetched') = Len(cycFetched) + 1 /\ lastFetch # -1)
         => now - lastFetch >= PaceDelayMs]_vars

\* a cycle has made two fetch calls, the first of which failed
C12_Witness ==
    /\ timed
    /\ Len(cycFetched) = 2
    /\ cycFetched[1] \in cycFailed
    /\ lastFetch >= PaceDelayMs

\* C13 (as stated): the loop waits settings.poll_interval_seconds between the
\* end of one cycle and the start of the next.
C13_SleepsConfiguredInterval ==
    waited \in {-1, SettingsPollIntervalSeconds * 1000}

\* C14 (as stated): with poll_once run out of band, the scheduled loop still
\* resumes from each of its sleeps at the moment the sleep is due, and starts
\* each cycle the poll interval after the previous one ended.
C14_LoopKeepsItsSchedule ==
    /\ late = 0
    /\ waited \in {-1, PollIntervalMs}

\* C15 (as stated): when a cycle has completed, every record of an answered
\* upstream response that normalize_trade does not raise on is in the store.
C15_OnlyBadRecordDropped ==
    cycDone =>
        \A k \in 1..Len(cycFetched) :
            cycFetched[k] \notin cycFailed =>
                \A i \in 1..Len(UpstreamTrades(cycFetched[k])) :
                    ~NormalizeRaises(UpstreamTrades(cycFetched[k])[i]) =>
                        TradeExists(trades, UidOf(UpstreamTrades(cycFetched[k])[i],
                                                  cycFetched[k]))

\* C16: whenever the loop is about to process a trade, what it does when the
\* notifier fails is what it does when the notifier succeeds, the status and
\* error of the alert_log row apart: the same trade stored, the same notifier
\* invocation, a row logged for the same trade_uid, and the loop goes on to the
\* next trade or to the pacing sleep before the next wallet; and nothing it
\* does later depends on the status of the rows logged so far.
C16_FailedSendChangesNothingElse ==
    [][pc = "process" =>
        LET a == cycWallets[wi].wallet_address
            P(log, ok) == PollTradeIn(wallets, trades, log, a, fetched[ti], ok)
            Keys(log) == {<<r.trade_uid, r.wallet_address>> : r \in Rows(log)}
            Failed(log) == SetToBag({[r EXCEPT !.status = "failed",
                                               !.error_message = "SMTP error: ..."] :
                                       r \in Rows(log)})
            Same(x, y) == /\ x.trades = y.trades
                          /\ x.new = y.new
                          /\ x.reached = y.reached
                          /\ x.sent = y.sent
                          /\ Keys(x.log) = Keys(y.log)
                          /\ BagCardinality(x.log) = BagCardinality(y.log)
        IN /\ Same(P(alertLog, FALSE), P(alertLog, TRUE))
           /\ \A ok \in BOOLEAN : Same(P(Failed(alertLog), ok), P(alertLog, ok))
           /\ notified' # notified =>
                 /\ trades' = P(alertLog, TRUE).trades
                 /\ Keys(alertLog') = Keys(P(alertLog, TRUE).log)
                 /\ UNCHANGED <<wallets, running, selfTask, cycWallets, wi>>
                 /\ IF ti < Len(fetched)
                    THEN pc' = "process" /\ ti' = ti + 1 /\ fetched' = fetched
                    ELSE \E t \in Tasks : taskState[t] = "active" /\ taskState'[t] = "pace"]_vars

\* the notifier has failed for one trade and been invoked for another after
\* it, and the cycle has completed
C16_Witness ==
    /\ cycDone
    /\ \E x \in outcomes : ~x[2]
    /\ \E x \in outcomes : x[2]
    /\ \E r \in Rows(alertLog) : r.status = "failed"

\* C17: every trade_uid the notifier was invoked for has exactly one alert_log
\* row, with status success and no error when the send succeeded, with status
\* failed and the error string when it did not.
C17_EveryAttemptLogged ==
    \A x \in outcomes :
        /\ AlertRows(alertLog, x[1]) = 1
        /\ \A r \in Rows(alertLog) :
              r.trade_uid = x[1] =>
                  IF x[2] THEN r.status = "success" /\ r.error_message = Null
                  ELSE r.status = "failed" /\ r.error_message \notin {Null, ""}

\* the notifier was invoked with success for one trade and with failure for
\* another
C17_Witness ==
    /\ \E x \in outcomes : x[2] /\ AlertRows(alertLog, x[1]) = 1
    /\ \E x \in outcomes : ~x[2] /\ AlertRows(alertLog, x[1]) = 1

\* C18: send_trade_alert returns a (success, error_message) pair and raises
\* nothing, whatever fields of the trade are None and whatever the transport
\* does; when the body cannot be formatted or the transport fails, success is
\* false and the error string is not empty.
C18_NotifierNeverRaises ==
    mailOut # <<>> =>
        /\ ~mailOut[2].raised
        /\ mailOut[2].success \in BOOLEAN
        /\ (~mailOut[1] \/ ~EmailFormats(mailIn)) =>
              /\ ~mailOut[2].success
              /\ mailOut[2].error_message \notin {"", Null}

\* send_trade_alert has returned for a trade with no side and no price
C18_Witness ==
    /\ mailOut # <<>>
    /\ mailIn.side = Null
    /\ mailIn.price = NoFloat
    /\ mailIn.timestamp = Null
    /\ ~mailOut[2].success

\* C19: bulk_create_trades returns total equal to the length of the list and
\* imported + skipped equal to total; imported is the number of trade_uids the
\* call added to the store, and every element of the list was processed: its
\* trade_uid is in the store afterwards, once.
C19_BulkCountsEveryElement ==
    bulkOut # <<>> =>
        LET Uids(tr) == {r.trade_uid : r \in Rows(tr)}
        IN /\ bulkOut[1].total = Len(bulkIn)
           /\ bulkOut[1].imported + bulkOut[1].skipped = bulkOut[1].total
           /\ bulkOut[1].imported = Cardinality(Uids(trades) \ Uids(bulkBefore))
           /\ \A i \in 1..Len(bulkIn) : TradeRows(trades, bulkIn[i].trade_uid) = 1
           /\ \A r \in Rows(bulkBefore) : TradeRows(trades, r.trade_uid) = 1

\* the call has returned for a list that repeats a trade_uid and holds one that
\* was stored before the call and, after it, one that was not
C19_Witness ==
    /\ bulkOut # <<>>
    /\ Len(bulkIn) = MaxBulk
    /\ \E i, j \in 1..Len(bulkIn) : i < j /\ bulkIn[i] = bulkIn[j]
    /\ \E i, j \in 1..Len(bulkIn) :
          /\ i < j
          /\ TradeExists(bulkBefore, bulkIn[i].trade_uid)
          /\ ~TradeExists(bulkBefore, bulkIn[j].trade_uid)
    /\ bulkOut[1].imported > 0
    /\ bulkOut[1].skipped > 0

\* C20 (as stated): every stored trade belongs to a wallet that is tracked, so
\* none is left of a deleted wallet, and a cycle fetches only wallets that
\* were in the registry when it started.
C20_DeletedWalletLeavesNothing ==
    /\ \A r \in Rows(trades) : WalletTracked(wallets, r.wallet_address)
    /\ Range(cycFetched) \subseteq Range(cycReg)

\* C21: in every step each stored trade stays in the store exactly as it is,
\* unless the step deletes the wallet of the trade.
C21_StoredTradeNeverChanges ==
    [][\A r \in Rows(trades) :
          \/ r \in Rows(trades') /\ trades'[r] = trades[r]
          \/ /\ WalletTracked(wallets, r.wallet_address)
             /\ ~WalletTracked(wallets', r.wallet_address)]_vars

\* a record with the trade_uid of a stored trade and other field values went
\* through create_trade
C21_Witness ==
    /\ inPc = "done"
    /\ ret2 = <<>>
    /\ \E r \in Rows(trades) :
          /\ r.trade_uid = NormalizeTrade(raw, inWallet).trade_uid
          /\ r # NormalizeTrade(raw, inWallet)


(***************************************************************************)
(* SpecRace: two sessions insert the trades of one upstream response at    *)
(* the same time. Session 1 is the for loop of poll_wallet; session 2 is   *)
(* bulk_create_trades of a fetch-history request (an endpoint declared     *)
(* with def, so run in the thread pool) or the loop of a second poller.    *)
(* Each statement that reaches the database is one step.                   *)
(***************************************************************************)
Sessions == 1..2

InitRace ==
    /\ \E a \in {1, 3}, alerts \in BOOLEAN :
          wallets = <<[wallet_address |-> a, alerts_enabled |-> alerts]>>
    /\ trades = EmptyBag
    /\ alertLog = EmptyBag
    /\ PollerInit
    /\ HistInit
    /\ IngestOff
    /\ ClockOff
    /\ mpc = "off"
    /\ mwallets = <<>>
    /\ mwi = 0
    /\ mwake = 0
    /\ mexpired = FALSE
    /\ bulkIn = <<>>
    /\ bulkBefore = EmptyBag
    /\ bulkOut = <<>>
    /\ mailIn = <<>>
    /\ mailOut = <<>>
    /\ window = <<>>
    /\ response = <<>>
    /\ tracker = <<>>
    /\ \E k \in {"bulk", "poll"} :
          race = [w \in Sessions |->
                     [kind |-> IF w = 1 THEN "poll" ELSE k, pc |-> "select", i |-> 1,
                      ok |-> FALSE, imported |-> 0, skipped |-> 0, conflict |-> FALSE,
                      broken |-> FALSE, lost |-> {}, worked |-> {}]]

\* the trades both sessions got from get_trades, and the one a session is at
RaceTrades == GetTrades(wallets[1].wallet_address, TRUE)
RaceTrade(w) == RaceTrades[race[w].i]

\* the session goes on to the next element of its for loop
RaceAdvance(r) ==
    IF r.i < Len(RaceTrades) THEN [r EXCEPT !.i = @ + 1, !.pc = "select"]
    ELSE [r EXCEPT !.pc = "done"]

\* create_trade up to its test: existing = get_trade(db, trade_uid); a found
\* row returns None (bulk_create_trades counts it as skipped). In a session
\* whose flush failed and that was not rolled back (nothing in the backend
\* calls db.rollback()) the query raises PendingRollbackError, which the
\* handler of the loop body catches; lost keeps the trades that were not in
\* the store when the session gave them up
RaceSelect(w) ==
    /\ race # <<>>
    /\ race[w].pc = "select"
    /\ race' = [race EXCEPT ![w] =
                    IF @.broken
                    THEN RaceAdvance([@ EXCEPT !.lost =
                             IF TradeExists(trades, RaceTrade(w).trade_uid) THEN @
                             ELSE @ \cup {RaceTrade(w).trade_uid}])
                    ELSE IF TradeExists(trades, RaceTrade(w).trade_uid)
                    THEN RaceAdvance([@ EXCEPT !.skipped = @ + 1])
                    ELSE [@ EXCEPT !.pc = "commit"]]
    /\ UNCHANGED <<storeVars, pollerVars, cycleVars, everStored, notified, outcomes,
                   cycleHist, stopHist, events, ingestVars, manualVars, bulkVars, mailVars,
                   window, response, tracker, clockVars, timeHist>>

\* create_trade from db.add to its return. IntegrityError leaves
\* bulk_create_trades and is answered by the endpoint with HTTP 500; in
\* poll_wallet the handler of the loop body catches it and the loop goes on,
\* over a session whose transaction is left rolled back and inactive.
\* A stored trade goes to send_alert when alerts are enabled and policy allows.
RaceCommit(w) ==
    /\ race # <<>>
    /\ race[w].pc = "commit"
    /\ LET td == RaceTrade(w)
           res == InsertTrade(trades, td)
       IN /\ trades' = res.trades
          /\ everStored' = IF res.raised THEN everStored
                           ELSE everStored \cup {td.trade_uid}
          /\ race' = [race EXCEPT ![w] =
                IF res.raised
                THEN IF @.kind = "bulk" THEN [@ EXCEPT !.pc = "raised", !.conflict = TRUE]
                     ELSE RaceAdvance([@ EXCEPT !.conflict = TRUE, !.broken = TRUE])
                ELSE IF /\ @.kind = "poll"
                        /\ wallets[1].alerts_enabled
                        /\ ShouldSendAlert(td)
                     THEN [@ EXCEPT !.imported = @ + 1, !.pc = "alert"]
                     ELSE RaceAdvance([@ EXCEPT !.imported = @ + 1])]
    /\ UNCHANGED <<wallets, alertLog, pollerVars, cycleVars, notified, outcomes,
                   cycleHist, stopHist, events, ingestVars, manualVars, bulkVars, mailVars,
                   window, response, tracker, clockVars, timeHist>>

\* send_alert up to the notifier's return: was_alert_sent, send_trade_alert;
\* worked keeps the trades whose notifier call found the transport working
RaceGuard(w, smtpOk) ==
    /\ race # <<>>
    /\ race[w].pc = "alert"
    /\ LET td == RaceTrade(w)
           res == SendTradeAlert(td, smtpOk)
       IN IF WasAlertSent(alertLog, td.trade_uid)
          THEN /\ race' = [race EXCEPT ![w] = RaceAdvance(@)]
               /\ UNCHANGED <<notified, outcomes>>
          ELSE /\ race' = [race EXCEPT ![w] =
                              [@ EXCEPT !.pc = "log", !.ok = res.success,
                                        !.worked = IF smtpOk THEN @ \cup {td.trade_uid}
                                                   ELSE @]]
               /\ notified' = Bump(notified, td.trade_uid)
               /\ outcomes' = outcomes \cup {<<td.trade_uid, res.success>>}
    /\ UNCHANGED <<storeVars, pollerVars, cycleVars, everStored, cycleHist, stopHist,
                   events, ingestVars, manualVars, bulkVars, mailVars, window, response,
                   tracker, clockVars, timeHist>>

\* send_alert: crud.create_alert_log
RaceLog(w) ==
    /\ race # <<>>
    /\ race[w].pc = "log"
    /\ alertLog' = CreateAlertLog(alertLog, RaceTrade(w).trade_uid,
                                  wallets[1].wallet_address,
                                  IF race[w].ok THEN "success" ELSE "failed",
                                  IF race[w].ok THEN Null
                                  ELSE SendTradeAlert(RaceTrade(w), FALSE).error_message)
    /\ race' = [race EXCEPT ![w] = RaceAdvance(@)]
    /\ UNCHANGED <<wallets, trades, pollerVars, cycleVars, everStored, notified, outcomes,
                   cycleHist, stopHist, events, ingestVars, manualVars, bulkVars, mailVars,
                   window, response, tracker, clockVars, timeHist>>

SpecRace ==
    InitRace /\ [][\E w \in Sessions : \/ RaceSelect(w)
                                       \/ RaceCommit(w)
                                       \/ \E smtpOk \in BOOLEAN : RaceGuard(w, smtpOk)
                                       \/ RaceLog(w)]_vars

\* C22: when a fetch-history import and a poll cycle insert the same
\* trade_uid concurrently, neither raises, and the import completes with
\* imported + skipped = total
C22_ConcurrentInsertNeverRaises ==
    \A w \in DOMAIN race :
        /\ race[w].pc # "raised"
        /\ race[w].kind = "bulk" /\ race[w].pc = "done"
              => race[w].imported + race[w].skipped = Len(RaceTrades)

\* C23: two pollers running concurrently against the same store leave at
\* most one Trade row and at most one AlertLog row per trade_uid, whatever the
\* interleaving of their create_trade and send_alert steps
C23_OneRowPerTradeUid ==
    (race # <<>> /\ \A w \in Sessions : race[w].kind = "poll")
        => \A i \in 1..Len(RaceTrades) :
              /\ TradeRows(trades, RaceTrades[i].trade_uid) <= 1
              /\ AlertRows(alertLog, RaceTrades[i].trade_uid) <= 1

C23_Witness ==
    /\ race # <<>>
    /\ \A w \in Sessions : race[w].kind = "poll" /\ race[w].pc = "done"
    /\ \E w \in Sessions : race[w].conflict
    /\ \A i \in 1..Len(RaceTrades) : TradeRows(trades, RaceTrades[i].trade_uid) = 1
    /\ \E i \in 1..Len(RaceTrades) : AlertRows(alertLog, RaceTrades[i].trade_uid) = 1

\* C24: the window poll_wallet requests for a wallet starts at the timestamp
\* of the wallet's latest already-seen trade when it has one, and at now minus
\* the initial lookback window only on first contact. The upstream trades of
\* wallet 1 are dated two days and one day before the service started.
C24_WindowStartsAtLastSeen ==
    window # <<>> =>
        LET at(rec) == IF rec = RawA THEN 0 - 2 * 86400000 ELSE 0 - 86400000
            seen == {i \in 1..Len(UpstreamTrades(window.wallet)) :
                        TradeExists(trades, NormalizeTrade(UpstreamTrades(window.wallet)[i],
                                                           window.wallet).trade_uid)}
            latest == CHOOSE t \in {at(UpstreamTrades(window.wallet)[i]) : i \in seen} :
                         \A i \in seen : at(UpstreamTrades(window.wallet)[i]) <= t
        IN IF window.had /\ seen # {}
           THEN window.start_time = latest /\ "start_time" \in window.params
           ELSE window.start_time = window.at - InitialLookbackDays * 86400000

(***************************************************************************)
(* SpecHealth: GET /health is served (in the thread pool, so at any moment) *)
(* while start() and stop() are called in any order                        *)
(***************************************************************************)
\* health_check without the try/except around the database test
HealthCheckNoCatch(dbOk) ==
    /\ response' = [endpoint |-> "health", raised |-> ~dbOk,
                    status |-> "ok", poller_running |-> running,
                    database_connected |-> dbOk,
                    at |-> [reachable |-> dbOk,
                            alive |-> selfTask # 0 /\ taskState[selfTask] # "done",
                            stopping |-> stopAwait # 0]]
    /\ UNCHANGED <<storeVars, pollerVars, cycleVars, everStored, notified, outcomes,
                   cycleHist, stopHist, events, ingestVars, manualVars, bulkVars, mailVars,
                   race, window, tracker, clockVars, timeHist>>

\* health_check: db.execute("SELECT 1") succeeds (dbOk) or raises, which is
\* caught and logged;  poller_running = poller is not None and poller.running
\* (there is no poller before lifespan() starts one: running is FALSE then)
HealthCheck(dbOk) ==
    /\ response' = [endpoint |-> "health", raised |-> FALSE,
                    status |-> IF dbOk THEN "ok" ELSE "degraded",
                    poller_running |-> running,
                    database_connected |-> dbOk,
                    at |-> [reachable |-> dbOk,
                            alive |-> selfTask # 0 /\ taskState[selfTask] # "done",
                            stopping |-> stopAwait # 0]]
    /\ UNCHANGED <<storeVars, pollerVars, cycleVars, everStored, notified, outcomes,
                   cycleHist, stopHist, events, ingestVars, manualVars, bulkVars, mailVars,
                   race, window, tracker, clockVars, timeHist>>

SpecHealth == InitLife /\ [][NextLife \/ \E dbOk \in BOOLEAN : HealthCheck(dbOk)]_vars

\* C25 as stated: the health probe reports poller_running = true exactly when
\* the poll loop task is alive, status ok exactly when the store is reachable
\* and degraded otherwise, and does not raise
C25_ProbeTellsTaskAlive ==
    (response # <<>> /\ response.endpoint = "health")
        => /\ response.poller_running = response.at.alive
           /\ response.status = (IF response.at.reachable THEN "ok" ELSE "degraded")
           /\ ~response.raised

\* C25 amended: the probe never raises, reports status ok exactly when the
\* store is reachable and degraded otherwise, and reports poller_running =
\* true exactly when the poll loop task is alive whenever no start() or stop()
\* call is in progress (from the moment stop() clears the flag until the
\* cancelled task has finished, the probe reports false while the task is
\* still alive; start() is one step here)
C25_ProbeTellsFlag ==
    (response # <<>> /\ response.endpoint = "health")
        => /\ ~response.at.stopping => response.poller_running = response.at.alive
           /\ response.status = (IF response.at.reachable THEN "ok" ELSE "degraded")
           /\ response.database_connected = response.at.reachable
           /\ ~response.raised

C25_Witness ==
    /\ response # <<>>
    /\ response.endpoint = "health"
    /\ response.at.stopping
    /\ response.at.alive
    /\ ~response.poller_running
    /\ ~response.at.reachable
    /\ response.status = "degraded"

(***************************************************************************)
(* SpecApi: the registry endpoints with both of their outcomes, called in  *)
(* any order on an idle service                                            *)
(***************************************************************************)
\* the registry endpoints with a create_favorite that overwrites the row of an
\* address already tracked before it answers 400
HandleRegistryOverwrite(op, reg, tr, a, alerts, ok) ==
    IF ~WalletTracked(reg, a)
    THEN [status |-> IF op = "create" THEN 201 ELSE 404,
          wallets |-> IF op = "create"
                      THEN Append(reg, [wallet_address |-> a, alerts_enabled |-> alerts])
                      ELSE reg,
          trades |-> tr, calls |-> 0]
    ELSE [status |-> IF op = "create" THEN 400 ELSE 200,
          wallets |-> [i \in 1..Len(reg) |->
                          IF reg[i].wallet_address = a
                          THEN [reg[i] EXCEPT !.alerts_enabled = alerts] ELSE reg[i]],
          trades |-> tr, calls |-> 0]

\* create_favorite, update_favorite, delete_favorite and
\* fetch_wallet_trade_history: the status code answered, the tables after the
\* request, and the number of calls made to the upstream
HandleRegistry(op, reg, tr, a, alerts, ok) ==
    CASE op = "create" ->
            IF WalletTracked(reg, a)
            THEN [status |-> 400, wallets |-> reg, trades |-> tr, calls |-> 0]
            ELSE [status |-> 201,
                  wallets |-> Append(reg, [wallet_address |-> a, alerts_enabled |-> alerts]),
                  trades |-> tr, calls |-> 0]
      [] op = "update" ->
            IF ~WalletTracked(reg, a)
            THEN [status |-> 404, wallets |-> reg, trades |-> tr, calls |-> 0]
            ELSE [status |-> 200,
                  wallets |-> [i \in 1..Len(reg) |->
                                  IF reg[i].wallet_address = a
                                  THEN [reg[i] EXCEPT !.alerts_enabled = alerts]
                                  ELSE reg[i]],
                  trades |-> tr, calls |-> 0]
      [] op = "delete" ->
            IF ~WalletTracked(reg, a)
            THEN [status |-> 404, wallets |-> reg, trades |-> tr, calls |-> 0]
            ELSE [status |-> 204, wallets |-> SeqWithout(reg, a),
                  trades |-> CascadeTrades(tr, a), calls |-> 0]
      [] op = "fetch-history" ->
            IF ~WalletTracked(reg, a)
            THEN [status |-> 404, wallets |-> reg, trades |-> tr, calls |-> 0]
            ELSE [status |-> 200, wallets |-> reg,
                  trades |-> BulkCreateTrades(tr, GetTrades(a, ok)).trades, calls |-> 1]

\* one request to a registry endpoint
RegistryRequest(op, a, alerts, ok) ==
    /\ LET res == HandleRegistry(op, wallets, trades, a, alerts, ok)
       IN /\ wallets' = res.wallets
          /\ trades' = res.trades
          /\ everStored' = everStored \cup {r.trade_uid : r \in Rows(res.trades)}
          /\ response' = [endpoint |-> op, wallet |-> a, status |-> res.status,
                          calls |-> res.calls]
    /\ UNCHANGED <<alertLog, pollerVars, cycleVars, notified, outcomes, cycleHist, stopHist,
                   events, ingestVars, manualVars, bulkVars, mailVars, race, window,
                   tracker, clockVars, timeHist>>

SpecApi ==
    InitLife /\ [][\E op \in {"create", "update", "delete", "fetch-history"},
                      a \in {1, 3}, alerts \in BOOLEAN, ok \in BOOLEAN :
                        RegistryRequest(op, a, alerts, ok)]_vars

\* C26: a rejected registry request leaves all state unchanged: registering a
\* tracked address is answered with the duplicate error (400) and the Registry
\* is unchanged; update, delete and fetch-history of an untracked address are
\* answered with not found (404), Registry and store unchanged and no
\* upstream call made
C26_RejectedRequestChangesNothing ==
    [][/\ (response'.endpoint = "create" /\ WalletTracked(wallets, response'.wallet))
             => response'.status = 400
       /\ (response'.endpoint # "create" /\ ~WalletTracked(wallets, response'.wallet))
             => response'.status = 404
       /\ response'.status \in {400, 404}
             => /\ wallets' = wallets
                /\ trades' = trades
                /\ alertLog' = alertLog
                /\ response'.calls = 0]_vars

C26_Witness ==
    /\ response # <<>>
    /\ response.endpoint = "fetch-history"
    /\ response.status = 404
    /\ ~WalletTracked(wallets, response.wallet)
    /\ wallets # <<>>
    /\ trades # EmptyBag

(***************************************************************************)
(* SpecQuery: one GET /trades request over a store and a registry drawn    *)
(* from small sets; wallet addresses and custom names are strings          *)
(***************************************************************************)
\* crud.get_trades that ignores the offset
QueryTradesNoOffset(reg, tr, wallet, sort_by, skip, limit) ==
    LET named == {i \in 1..Len(reg) : reg[i].custom_name = wallet}
        address == IF named # {}
                   THEN reg[CHOOSE i \in named : \A j \in named : i <= j].wallet_address
                   ELSE wallet
        rows == IF wallet = Null THEN Rows(tr)
                ELSE {r \in Rows(tr) : r.wallet_address = address}
        n == Cardinality(rows)
        key(r) == IF r[sort_by] = NoFloat THEN -1 ELSE r[sort_by][1]
        orders == {q \in [1..n -> rows] :
                      /\ \A i, j \in 1..n : i # j => q[i] # q[j]
                      /\ \A i \in 1..n : i < n => key(q[i]) >= key(q[i + 1])}
    IN {[items |-> SubSeq(q, 1, Min2(n, limit)), total |-> n] : q \in orders}

\* crud.get_trades with the wallet filter and a numeric sort column, sort_order
\* "desc".  The filter is first looked up as a custom name (.first(): the
\* earliest row of the registry that bears it), and is taken as an address
\* when no wallet bears it; wallet = Null is no filter.  NULL sorts last in
\* descending order; the order of rows with equal keys is not specified, so
\* the result is any of the pages that some descending order gives.
QueryTrades(reg, tr, wallet, sort_by, skip, limit) ==
    LET named == {i \in 1..Len(reg) : reg[i].custom_name = wallet}
        address == IF named # {}
                   THEN reg[CHOOSE i \in named : \A j \in named : i <= j].wallet_address
                   ELSE wallet
        rows == IF wallet = Null THEN Rows(tr)
                ELSE {r \in Rows(tr) : r.wallet_address = address}
        n == Cardinality(rows)
        key(r) == IF r[sort_by] = NoFloat THEN -1 ELSE r[sort_by][1]
        orders == {q \in [1..n -> rows] :
                      /\ \A i, j \in 1..n : i # j => q[i] # q[j]
                      /\ \A i \in 1..n : i < n => key(q[i]) >= key(q[i + 1])}
    IN {[items |-> SubSeq(q, skip + 1, Min2(n, skip + limit)), total |-> n] : q \in orders}

\* the registry holds up to two wallets, with or without custom names (two
\* wallets may bear the same name, or one the address of the other); the
\* store holds any of four trades, two of them with equal usd_amount and one
\* without usd_amount
InitQuery ==
    /\ \E k \in 0..2 :
          wallets \in {w \in [1..k -> [wallet_address : {"0xa", "0xb"},
                                       custom_name : {Null, "alice", "bob", "0xb"},
                                       alerts_enabled : {TRUE}]] :
                          \A i, j \in 1..k : i # j => w[i].wallet_address # w[j].wallet_address}
    /\ \E stored \in SUBSET
              {[trade_uid |-> "q1", wallet_address |-> "0xa", side |-> "buy",
                price |-> <<2>>, usd_amount |-> <<150>>, shares |-> <<75>>],
               [trade_uid |-> "q2", wallet_address |-> "0xa", side |-> "sell",
                price |-> <<3>>, usd_amount |-> <<150>>, shares |-> <<50>>],
               [trade_uid |-> "q3", wallet_address |-> "0xb", side |-> "buy",
                price |-> <<5>>, usd_amount |-> <<50>>, shares |-> <<10>>],
               [trade_uid |-> "q4", wallet_address |-> "0xb", side |-> "buy",
                price |-> NoFloat, usd_amount |-> NoFloat, shares |-> NoFloat]} :
          trades = SetToBag(stored)
    /\ alertLog = EmptyBag
    /\ PollerInit
    /\ HistInit
    /\ IngestOff
    /\ ClockOff
    /\ SideOff

\* GET /trades: skip = (page - 1) * page_size,
\* total_pages = (total_count + page_size - 1) // page_size
TradesRequest(wallet, sort_by, page, page_size) ==
    /\ \E res \in QueryTrades(wallets, trades, wallet, sort_by, (page - 1) * page_size,
                               page_size) :
          response' = [endpoint |-> "trades", wallet |-> wallet, sort_by |-> sort_by,
                       items |-> res.items, total_results |-> res.total,
                       total_pages |-> (res.total + page_size - 1) \div page_size,
                       current_page |-> page, page_size |-> page_size]
    /\ UNCHANGED <<storeVars, pollerVars, cycleVars, everStored, notified, outcomes,
                   cycleHist, stopHist, events, ingestVars, manualVars, bulkVars, mailVars,
                   race, window, tracker, clockVars, timeHist>>

SpecQuery ==
    InitQuery /\ [][\E wallet \in {Null, "0xa", "0xb", "alice", "bob"},
                       sort_by \in {"price", "usd_amount", "shares"},
                       page \in 1..MaxPage, page_size \in 1..MaxPageSize :
                         (response = <<>> /\ TradesRequest(wallet, sort_by, page,
                                                            page_size))]_vars

\* C27: for any store, page size s and page p, the trades query sorted by a
\* whitelisted column in descending order returns the trades ranked
\* (p-1)*s+1 through p*s by that column (ranks among equal values in either
\* order), total_results is the number of matching trades and total_pages is
\* ceil(total_results / s)
C27_PageIsRankSlice ==
    (response # <<>> /\ response.endpoint = "trades") =>
        LET s == response.page_size
            p == response.current_page
            n == response.total_results
            items == response.items
            col == response.sort_by
            key(r) == IF r[col] = NoFloat THEN -1 ELSE r[col][1]
            matching == IF response.wallet = Null THEN Rows(trades)
                        ELSE {r \in Rows(trades) :
                                 \E res \in QueryTrades(wallets, trades, response.wallet, col,
                                                        0, Cardinality(Rows(trades))) :
                                    \E i \in 1..Len(res.items) : res.items[i] = r}
        IN /\ n = Cardinality(matching)
           /\ response.total_pages * s >= n
           /\ (response.total_pages - 1) * s < n \/ (n = 0 /\ response.total_pages = 0)
           /\ Len(items) = (IF n > (p - 1) * s THEN Min2(s, n - (p - 1) * s) ELSE 0)
           /\ \A k \in 1..Len(items) :
                 /\ items[k] \in matching
                 /\ \A j \in 1..Len(items) : j # k => items[j] # items[k]
                 /\ Cardinality({r \in matching : key(r) > key(items[k])})
                       <= (p - 1) * s + k - 1
                 /\ Cardinality({r \in matching : key(r) >= key(items[k])})
                       >= (p - 1) * s + k

C27_Witness ==
    /\ response # <<>>
    /\ response.endpoint = "trades"
    /\ response.wallet = Null
    /\ response.sort_by = "usd_amount"
    /\ response.current_page = 2
    /\ response.page_size = 2
    /\ response.total_results = 4
    /\ response.total_pages = 2
    /\ Len(response.items) = 2
    /\ response.items[2].usd_amount = NoFloat

\* C28: for every tracked wallet with address a and custom name n, in any
\* registry, the trades query with wallet filter n returns the same trades and
\* the same total as the query with wallet filter a
C28_NameFilterEqualsAddressFilter ==
    (response # <<>> /\ response.endpoint = "trades") =>
        \A i \in 1..Len(wallets) :
            (wallets[i].custom_name # Null /\ wallets[i].custom_name = response.wallet) =>
                \E res \in QueryTrades(wallets, trades, wallets[i].wallet_address,
                                       response.sort_by,
                                       (response.current_page - 1) * response.page_size,
                                       response.page_size) :
                    /\ res.total = response.total_results
                    /\ res.items = response.items

(***************************************************************************)
(* SpecUid: generate_trade_uid is called for two raw records, the second   *)
(* differing from the first in at most two raw fields or in the wallet, or *)
(* normalize_timestamp is called for the timestamp of the first            *)
(***************************************************************************)
UidInputs ==
    {[RawBase EXCEPT !.asset_id = a, !.token_id = k, !.timestamp = t, !.side = sd,
                     !.price = p, !.usd_amount = u, !.shares = q, !.size = z] :
        a \in {Null, "a1"}, k \in {Null, "k2"}, t \in {Null, "1/14/2026 17:47"},
        sd \in {Null, "b"}, p \in {NullNum, Num(2)}, u \in {NullNum, Num(0), Num(50)},
        q \in {NullNum, Num(75)}, z \in {NullNum, NumStr(75)}}

InitUid ==
    /\ raw \in UidInputs \cup
                {[RawBase EXCEPT !.timestamp = t] :
                    t \in {"1/14/2026 17:47:30", "2026-01-14T17:47:00Z", "13/40/2026 17:47",
                           "int:1768412820", EpochMs, "float:1768412820.5"}}
    /\ inWallet \in 1..2
    /\ wallets = <<>>
    /\ trades = EmptyBag
    /\ alertLog = EmptyBag
    /\ inPc = "off"
    /\ ret1 = <<>>
    /\ ret2 = <<>>
    /\ polOut = <<>>
    /\ PollerInit
    /\ HistInit
    /\ ClockOff
    /\ SideOff

\* the two calls of generate_trade_uid
UidCalls(other, w2) ==
    /\ response = <<>>
    /\ Cardinality({f \in DOMAIN raw : other[f] # raw[f]}) <= 2
    /\ response' = [endpoint |-> "generate_trade_uid", other |-> other, wallet |-> w2,
                    uid1 |-> GenerateTradeUid(raw, inWallet),
                    uid2 |-> GenerateTradeUid(other, w2)]
    /\ UNCHANGED <<storeVars, pollerVars, cycleVars, everStored, notified, outcomes,
                   cycleHist, stopHist, events, ingestVars, manualVars, bulkVars, mailVars,
                   race, window, tracker, clockVars, timeHist>>

\* one call of normalize_timestamp
TimestampCall ==
    /\ response = <<>>
    /\ response' = [endpoint |-> "normalize_timestamp", timestamp |-> raw.timestamp,
                    raised |-> NormalizeTimestamp(raw.timestamp).raised,
                    value |-> NormalizeTimestamp(raw.timestamp).value]
    /\ UNCHANGED <<storeVars, pollerVars, cycleVars, everStored, notified, outcomes,
                   cycleHist, stopHist, events, ingestVars, manualVars, bulkVars, mailVars,
                   race, window, tracker, clockVars, timeHist>>

SpecUid ==
    InitUid /\ [][\/ \E other \in UidInputs, w2 \in 1..2 : UidCalls(other, w2)
                  \/ TimestampCall]_vars

\* C29: generate_trade_uid returns the same identifier for two inputs that
\* agree on wallet, asset (asset_id, else token_id, else empty), timestamp,
\* side, price and amount (usd_amount, else shares, else size), and different
\* identifiers for two inputs that differ in any one of these
C29_UidTellsTheSixFields ==
    (response # <<>> /\ response.endpoint = "generate_trade_uid") =>
        LET asset(x) == IF x.asset_id # Null THEN x.asset_id
                        ELSE IF x.token_id # Null THEN x.token_id ELSE ""
            amount(x) == IF Truthy(x.usd_amount) THEN x.usd_amount
                         ELSE IF Truthy(x.shares) THEN x.shares ELSE x.size
            agree == /\ response.wallet = inWallet
                     /\ asset(response.other) = asset(raw)
                     /\ response.other.timestamp = raw.timestamp
                     /\ response.other.side = raw.side
                     /\ response.other.price = raw.price
                     /\ amount(response.other) = amount(raw)
        IN (response.uid1 = response.uid2) <=> agree

\* two records that differ in a raw field yet agree on the six get one
\* identifier
C29_Witness ==
    /\ response # <<>>
    /\ response.endpoint = "generate_trade_uid"
    /\ response.other # raw
    /\ response.other.token_id # raw.token_id
    /\ response.other.shares # raw.shares
    /\ response.uid1 = response.uid2

\* C30: normalize_timestamp never raises: for an epoch integer of any
\* magnitude, an ISO 8601 string, an M/D/YYYY H:MM[:SS] string, any other
\* string or a missing value it returns a string, and a string that no parser
\* accepts is returned unchanged
C30_NormalizeTimestampNeverRaises ==
    (response # <<>> /\ response.endpoint = "normalize_timestamp")
        => /\ ~response.raised
           /\ response.value # Null
           /\ response.timestamp = "13/40/2026 17:47" => response.value = response.timestamp

\* C31: in the normalized trade each of price, usd notional and shares is the
\* float value of the upstream field whenever that field is numeric-like, zero
\* included; price and shares are absent exactly when the field is missing or
\* unparsable: an unknown value never becomes 0, a supplied value is never
\* treated as unknown
C31_NumericFieldsKeepSuppliedValues ==
    (inPc \in {"policy", "second", "done"} /\ ret1 # <<>>) =>
        /\ ret1[1].price = (IF raw.price.k \in {"num", "str"}
                            THEN <<raw.price.v>> ELSE NoFloat)
        /\ ret1[1].shares = (IF raw.shares.k \in {"num", "str"}
                             THEN <<raw.shares.v>> ELSE NoFloat)
        /\ raw.usd_amount.k \in {"num", "str"} => ret1[1].usd_amount # NoFloat

\* C32: normalize_trade sets the usd notional to price x shares only when the
\* upstream supplied none and both price and shares are present; a usd
\* notional supplied upstream is never replaced by the product
C32_BackfillOnlyWhenNotSupplied ==
    (inPc \in {"policy", "second", "done"} /\ ret1 # <<>>) =>
        IF raw.usd_amount.k \in {"num", "str"}
        THEN ret1[1].usd_amount \in {<<raw.usd_amount.v>>, NoFloat}
        ELSE ret1[1].usd_amount # NoFloat
                => /\ ret1[1].price # NoFloat
                   /\ ret1[1].shares # NoFloat
                   /\ ret1[1].usd_amount = <<ret1[1].price[1] * ret1[1].shares[1]>>

\* ---------------------------------------------------------------------------
\* The batching tracker (src/src/tracker): a synchronous loop over the wallets
\* of config/wallets.yaml, a seen_trades table and an AlertManager queue.

MaxCycles == 3

\* MIN_TRADE_SIZE_USD, BATCH_WINDOW_SECONDS, polling.interval_seconds
TrackerMinTradeSizeUsd == 100
BatchWindowSeconds == 300
TrackerIntervalSeconds == 60

\* the longest time one cycle is let to take: with the sleep it spans the window
SlowCycleSeconds == 240

\* get_enabled_wallets: the configuration is read once, at construction
TrackerWallets ==
    <<[address |-> "0xa", name |-> "alice"], [address |-> "0xb", name |-> "bob"]>>

\* what the upstream can return, after enrich_trade (value_usd = price * size)
TrackerTrades ==
    [t \in 1..3 |-> [id |-> t, wallet_address |-> IF t <= 2 THEN "0xa" ELSE "0xb",
                     value_usd |-> IF t = 2 THEN 50 ELSE 150]]

\* is_trade_seen: COUNT(*) > 0, and True when the read fails
IsTradeSeen(seen, trade_id, readOk) == IF readOk THEN trade_id \in seen ELSE TRUE

\* mark_trade_seen: INSERT OR REPLACE; a failing write is logged and reported by
\* a False nobody reads
MarkTradeSeen(seen, trade_id, writeOk) == IF writeOk THEN seen \cup {trade_id} ELSE seen

\* AlertManager.should_alert
ShouldAlert(trade) == ~(trade.value_usd < TrackerMinTradeSizeUsd)

\* poll_wallet, the loop over the fetched trades: a trade not seen is reported
\* new, marked seen and, if it passes should_alert, queued by add_pending_alert
RECURSIVE TrackerPollWallet(_, _, _, _, _)
TrackerPollWallet(st, wallet, fetchedTrades, readOk, writeOk) ==
    IF fetchedTrades = <<>> THEN st
    ELSE LET trade == Head(fetchedTrades)
             isNew == ~IsTradeSeen(st.seen, trade.id, readOk)
             alert == isNew /\ ShouldAlert(trade)
             nxt == IF ~isNew THEN st
                    ELSE [st EXCEPT
                            !.news = @ \cup {trade.id},
                            !.seen = MarkTradeSeen(@, trade.id, writeOk),
                            !.pending = IF alert
                                        THEN Append(@, [n |-> st.queued + 1,
                                                        wallet_name |-> wallet.name,
                                                        id |-> trade.id])
                                        ELSE @,
                            !.queued = IF alert THEN @ + 1 ELSE @]
         IN  TrackerPollWallet(nxt, wallet, Tail(fetchedTrades), readOk, writeOk)

\* AlertManager.should_flush_batch
ShouldFlushBatch(st) ==
    IF ~st.batch_alerts THEN Len(st.pending) > 0
    ELSE IF st.pending = <<>> THEN FALSE
    ELSE IF st.last_batch_sent = -1 THEN TRUE
    ELSE st.now - st.last_batch_sent >= BatchWindowSeconds

GetPendingAlertsNoClear(st) ==
    [alerts |-> st.pending, st |-> [st EXCEPT !.last_batch_sent = st.now]]

\* AlertManager.get_pending_alerts: copy, clear, stamp
GetPendingAlerts(st) ==
    [alerts |-> st.pending,
     st |-> [st EXCEPT !.pending = <<>>, !.last_batch_sent = st.now]]

\* AlertManager.group_alerts_by_wallet: wallet name -> the alerts of that name
GroupAlertsByWallet(alerts) ==
    [name \in {alerts[i].wallet_name : i \in 1..Len(alerts)} |->
        SelectSeq(alerts, LAMBDA al : al.wallet_name = name)]

\* send_pending_alerts: one send_batch_alert for the grouped alerts when
\* batching is on and more than one alert is pending, else one
\* send_trade_alert per alert; neither call raises. flush keeps the calls,
\* handed counts for every alert the calls that carried it
SendPendingAlerts(st) ==
    LET got == GetPendingAlerts(st)
        alerts == got.alerts
        calls == IF alerts = <<>> THEN <<>>
                 ELSE IF got.st.batch_alerts /\ Len(alerts) > 1
                 THEN <<[call |-> "send_batch_alert",
                         trades_by_wallet |-> GroupAlertsByWallet(alerts)]>>
                 ELSE [i \in 1..Len(alerts) |->
                         [call |-> "send_trade_alert",
                          trades_by_wallet |->
                              [name \in {alerts[i].wallet_name} |-> <<alerts[i]>>]]]
        carried(n) == Cardinality({<<c, name, k>> \in
                          (1..Len(calls)) \X {w.name : w \in Range(TrackerWallets)}
                                          \X (1..Len(alerts)) :
                              /\ name \in DOMAIN calls[c].trades_by_wallet
                              /\ k \in 1..Len(calls[c].trades_by_wallet[name])
                              /\ calls[c].trades_by_wallet[name][k].n = n})
        given == {n \in 1..st.queued : carried(n) > 0}
    IN  [got.st EXCEPT !.flush = calls,
                       !.handed = @ (+) [n \in given |-> carried(n)]]

\* the tracker as TradePoller.__init__ leaves it, batching on or off
InitTracker ==
    /\ wallets = <<>>
    /\ trades = EmptyBag
    /\ alertLog = EmptyBag
    /\ PollerInit
    /\ HistInit
    /\ IngestOff
    /\ ClockOff
    /\ mpc = "off"
    /\ mwallets = <<>>
    /\ mwi = 0
    /\ mwake = 0
    /\ mexpired = FALSE
    /\ bulkIn = <<>>
    /\ bulkBefore = EmptyBag
    /\ bulkOut = <<>>
    /\ mailIn = <<>>
    /\ mailOut = <<>>
    /\ race = <<>>
    /\ window = <<>>
    /\ response = <<>>
    /\ \E batch \in BOOLEAN :
          tracker = [seen |-> {}, pending |-> <<>>, last_batch_sent |-> -1,
                     batch_alerts |-> batch, now |-> 0, news |-> {}, queued |-> 0,
                     handed |-> EmptyBag, reported |-> EmptyBag, flush |-> <<>>,
                     due |-> FALSE, held |-> FALSE, cycles |-> 0]

\* run_continuous, one iteration: run_once -> poll_all_wallets (every wallet
\* polled, then the flush if should_flush_batch), then time.sleep(interval).
\* up: the ids the upstream returns; readOk, writeOk: the seen_trades table
\* can be read, written; took: the seconds the iteration took
PollAllWallets(up, readOk, writeOk, took) ==
    /\ tracker # <<>>
    /\ tracker.cycles < MaxCycles
    /\ LET RECURSIVE PollFrom(_, _)
           PollFrom(st, i) ==
               IF i > Len(TrackerWallets) THEN st
               ELSE PollFrom(
                      TrackerPollWallet(st, TrackerWallets[i],
                          SelectSeq(TrackerTrades,
                                    LAMBDA t : /\ t.id \in up
                                               /\ t.wallet_address = TrackerWallets[i].address),
                          readOk, writeOk),
                      i + 1)
           polled == PollFrom([tracker EXCEPT !.news = {}], 1)
           atEnd == [polled EXCEPT !.now = @ + took]
           due == ShouldFlushBatch(atEnd)
           sent == IF due THEN SendPendingAlerts(atEnd) ELSE [atEnd EXCEPT !.flush = <<>>]
       IN  tracker' = IF TrackerWallets = <<>>
                      THEN [tracker EXCEPT !.now = @ + took + TrackerIntervalSeconds,
                                           !.cycles = @ + 1, !.flush = <<>>,
                                           !.due = FALSE, !.news = {}]
                      ELSE [sent EXCEPT !.due = due,
                                        !.held = @ \/ (~due /\ atEnd.pending # <<>>),
                                        !.reported = @ (+) SetToBag(polled.news),
                                        !.now = @ + TrackerIntervalSeconds,
                                        !.cycles = @ + 1]
    /\ UNCHANGED <<storeVars, pollerVars, cycleVars, everStored, notified, outcomes,
                   cycleHist, stopHist, events, ingestVars, clockVars, timeHist,
                   manualVars, bulkVars, mailVars, race, window, response>>

SpecTracker ==
    InitTracker /\ [][\E up \in SUBSET (1..3), readOk \in BOOLEAN, writeOk \in BOOLEAN,
                         took \in {0, SlowCycleSeconds} :
                         PollAllWallets(up, readOk, writeOk, took)]_vars

\* C33: every alert queued by add_pending_alert is either still pending and
\* was handed to no call of the notifier, or is no longer pending and was
\* handed to exactly one; a cycle at whose end should_flush_batch held leaves
\* the queue empty, and has made one send_batch_alert call carrying all of them
\* when batching is on and more than one was pending, one send_trade_alert
\* call per alert otherwise; a cycle at whose end it did not hold hands nothing
C33_QueuedAlertsHandedOnceAtFlush ==
    tracker # <<>> =>
        LET inQueue(n) == Cardinality({i \in 1..Len(tracker.pending) :
                                          tracker.pending[i].n = n})
            batchCalls == {c \in 1..Len(tracker.flush) :
                              tracker.flush[c].call = "send_batch_alert"}
        IN  /\ \A n \in 1..tracker.queued :
                   inQueue(n) + CopiesIn(n, tracker.handed) = 1
            /\ tracker.due => tracker.pending = <<>> /\ tracker.flush # <<>>
            /\ ~tracker.due => tracker.flush = <<>>
            /\ batchCalls # {} => /\ Len(tracker.flush) = 1
                                  /\ tracker.batch_alerts
            /\ (tracker.batch_alerts /\ Len(tracker.flush) > 0) =>
                   Len(tracker.flush) = 1
            /\ (tracker.batch_alerts /\ tracker.flush # <<>> /\ batchCalls = {}) =>
                   \A name \in DOMAIN tracker.flush[1].trades_by_wallet :
                       Len(tracker.flush[1].trades_by_wallet[name]) = 1

\* alerts were held back while the window ran, then left in one batched
\* message with a group for each of the two wallets
C33_Witness ==
    /\ tracker # <<>>
    /\ tracker.held
    /\ tracker.due
    /\ tracker.pending = <<>>
    /\ Len(tracker.flush) = 1
    /\ tracker.flush[1].call = "send_batch_alert"
    /\ DOMAIN tracker.flush[1].trades_by_wallet = {"alice", "bob"}

\* C40: no trade id is reported new by poll_wallet (and so put to should_alert
\* and queued) in more than one cycle
C40_NewInAtMostOneCycle ==
    tracker # <<>> => \A t \in 1..3 : CopiesIn(t, tracker.reported) <= 1

\* C34: after create_trade raised for one trade of a cycle (its commit failed),
\* the cycle still stores every later trade that is not in the store when the
\* loop comes to it
C34_LaterTradesStoredAfterFailedCommit ==
    \A w \in DOMAIN race : race[w].kind = "poll" => race[w].lost = {}

\* C35: once the import and the poll cycle over an alerts-enabled wallet are
\* through, neither having raised, every stored trade that passes
\* should_send_alert has a row in the AlertLog, whichever of the two stored it
C35_StoredAlertableTradeGetsAttempt ==
    (/\ race # <<>>
     /\ wallets[1].alerts_enabled
     /\ \A w \in Sessions : race[w].pc = "done" /\ ~race[w].conflict) =>
        \A r \in Rows(trades) :
            ShouldSendAlert(r) => WasAlertSent(alertLog, r.trade_uid)

\* C36: the attempt recorded for a stored trade without usd notional, made
\* with the transport working, has status success
C36_AbsentNotionalAlertDelivered ==
    \A w \in DOMAIN race : \A al \in Rows(alertLog) : \A r \in Rows(trades) :
        (/\ r.trade_uid = al.trade_uid
         /\ r.usd_amount = NoFloat
         /\ al.trade_uid \in race[w].worked) => al.status = "success"

\* C37: in every reachable state the wallet_address of each stored trade is
\* the address of a wallet in the registry
C37_StoredTradeWalletTracked ==
    \A r \in Rows(trades) : \E i \in 1..Len(wallets) :
        wallets[i].wallet_address = r.wallet_address

\* C38: under every interleaving of start() and stop(), a start() called while
\* a stop() still awaits the cancelled task included, at most one task is
\* inside _poll_loop, and at most one task that has not finished is without a
\* pending cancellation
C38_AtMostOneLoopTask ==
    /\ Cardinality({t \in Tasks : taskState[t] \in {"active", "pace", "sleep"}}) <= 1
    /\ Cardinality({t \in Tasks : /\ taskState[t] \notin {"unborn", "done"}
                                  /\ ~cancelReq[t]}) <= 1

\* start() was called while stop() awaits the cancelled task, which has not
\* finished yet
C38_Witness ==
    /\ stopAwait # 0
    /\ taskState[stopAwait] \notin {"unborn", "done"}
    /\ running
    /\ selfTask # stopAwait
    /\ taskState[selfTask] = "pending"

\* a _poll_loop without its try/except: the exception of the registry read
\* ends the task
CycleStartFailsNoCatch(t) ==
    /\ taskState[t] = "active"
    /\ pc = "cycle"
    /\ taskState' = [taskState EXCEPT ![t] = "done"]
    /\ pc' = "none"
    /\ events' = events \cup {"raised"}
    /\ UNCHANGED <<storeVars, running, selfTask, cancelReq, stopAwait, cycWallets, wi,
                   fetched, ti, expired, everStored, notified, outcomes, cycleHist,
                   stopHist, ingestVars, sideVars, clockVars, timeHist>>

\* poll_once in which crud.get_tracked_wallets raises (the database cannot be
\* read): finally closes the session, the handler of _poll_loop logs the
\* error and the loop goes to  await asyncio.sleep(self.poll_interval)
CycleStartFails(t) ==
    /\ taskState[t] = "active"
    /\ pc = "cycle"
    /\ taskState' = [taskState EXCEPT ![t] = "sleep"]
    /\ pc' = "none"
    /\ wake' = TimerAt(now, PollIntervalMs)
    /\ cycEndAt' = Stamp(cycEndAt, now)
    /\ events' = events \cup {"raised"}
    /\ UNCHANGED <<storeVars, running, selfTask, cancelReq, stopAwait, cycWallets, wi,
                   fetched, ti, expired, everStored, notified, outcomes, cycleHist,
                   stopHist, ingestVars, sideVars, timed, now, lastFetch, waited, late,
                   stopCall>>

\* SpecFault: start(), stop() and the loop over one tracked wallet, with a
\* database that may fail any read of the registry
SpecFault ==
    InitLife /\ [][NextLife \/ \E t \in Tasks : CycleStartFails(t)]_vars

\* C39: a loop task ends only after stop() cleared the flag or cancelled it;
\* a step in which an exception leaves the cycle takes the task to the
\* inter-cycle sleep, and the task that wakes from a sleep with the flag set
\* is at the start of another cycle
C39_ExceptionInCycleKeepsLoop ==
    [][\A t \in Tasks :
          /\ (taskState[t] # "done" /\ taskState'[t] = "done") =>
                 (~running \/ cancelReq[t])
          /\ (taskState[t] = "active" /\ pc = "cycle" /\ pc' = "none"
                 /\ GetTrackedWallets(wallets, 0, WalletPageLimit) # <<>>) =>
                 /\ taskState'[t] = "sleep"
                 /\ running' = running
          /\ (taskState[t] = "sleep" /\ taskState'[t] = "active") =>
                 /\ running
                 /\ pc' = "cycle"]_vars

\* a registry read has failed and the loop is at the start of a later cycle
C39_Witness ==
    /\ "raised" \in events
    /\ running
    /\ selfTask # 0
    /\ taskState[selfTask] = "active"
    /\ pc = "cycle"

=============================================================================
